---- MODULE Spec2Model ----
(***************************************************************************)
(* A model of the NekoMaid UI resolution engine: the symbol interner       *)
(* (vm/allocator.rs), the selector / class-path matcher (vm/classpath.rs), *)
(* the module context (vm/context.rs), style expansion (vm/style.rs) and   *)
(* module resolution (vm/mod.rs).                                          *)
(*                                                                         *)
(* Hash maps are functions over the set of their keys, hash sets are sets, *)
(* vectors are sequences.  A source position (TokenPosition) is modelled   *)
(* by the path of the node inside its module: <<kind, i, c1, .., cn>> for  *)
(* the i-th top-level item of a kind and the chain of child indexes below  *)
(* it, followed by <<0, k>> for that node's k-th property and one more 0   *)
(* for the variable reference in a property's value.                       *)
(***************************************************************************)
EXTENDS Naturals, Sequences, FiniteSets, TLC

VARIABLES
    alloc,      \* the process-wide NekoContextAllocator behind ALLOCATOR_MUTEX
    widgets,    \* NekoMaidVM.widgets : widget id -> WidgetDefinition
    contexts,   \* NekoMaidVM.contexts : module name -> NekoContext
    calls,      \* number of operations performed so far
    last,       \* the last operation: its arguments, the state before, its result
    cp, sh,     \* matcher inputs: a ClassPath and a SelectorHierarchy
    lock,       \* holder of ALLOCATOR_MUTEX ("none" when free)
    threads,    \* per thread: position inside get_or_create_<kind> / get_<kind>
    tokenizer,  \* tokenize: the TokenizerPosition, the tokens pushed, the result
    parser      \* build_ast: the token iterator, the ModuleNode so far, the result

vars == <<alloc, widgets, contexts, calls, last, cp, sh, lock, threads,
          tokenizer, parser>>

\* No text is being tokenized, no token list is being parsed.
NoTokenizer == [text |-> <<>>, chars |-> <<>>, line |-> 1, column |-> 1,
                tokens |-> <<>>, result |-> "idle"]
NoParser == [tokens |-> <<>>, next |-> 1, result |-> "idle"]

-----------------------------------------------------------------------------
(* Generic helpers for maps and sequences.                                 *)

Put(f, k, v) == [x \in (DOMAIN f) \cup {k} |-> IF x = k THEN v ELSE f[x]]

EmptyMap == [x \in {} |-> 0]

Range(s) == {s[i] : i \in DOMAIN s}

\* `let r = x; F(r)`: x is evaluated once and F is applied to its value.
Then(x, F(_)) == CHOOSE y \in {F(r) : r \in {x}} : TRUE

Reverse(s) == [i \in 1..Len(s) |-> s[Len(s) + 1 - i]]

-----------------------------------------------------------------------------
(* vm/allocator.rs : the symbol interner.                                  *)

Kinds == {"widgets", "properties", "classes", "variable"}

NewAllocator ==
    [incrementor |-> 0,
     widgets     |-> EmptyMap,
     properties  |-> EmptyMap,
     classes     |-> EmptyMap,
     variable    |-> EmptyMap]

\* get_<kind>(name): Some(id) or None, never allocates.
Get(al, kind, name) ==
    IF name \in DOMAIN al[kind]
    THEN [some |-> TRUE, id |-> al[kind][name]]
    ELSE [some |-> FALSE, id |-> 0]

\* An insertion that forgets to advance the incrementor.
AllocInsertSameId(al, kind, name) ==
    [al EXCEPT ![kind] = Put(al[kind], name, al.incrementor + 1)]

\* The insertion half of get_or_create_<kind>: advance the shared
\* incrementor and bind the name to its new value in the table of the kind.
AllocInsert(al, kind, name) ==
    [al EXCEPT !.incrementor = al.incrementor + 1,
               ![kind] = Put(al[kind], name, al.incrementor + 1)]

\* get_or_create_<kind>(name): the id and the allocator afterwards.
GetOrCreate(al, kind, name) ==
    IF name \in DOMAIN al[kind]
    THEN [al |-> al, id |-> al[kind][name]]
    ELSE Then(AllocInsert(al, kind, name),
              LAMBDA a2 : [al |-> a2, id |-> a2[kind][name]])

\* A lock that is handed out although another thread holds it.
LockFreeAlways(holder) == TRUE

\* ALLOCATOR_MUTEX.lock() returns once no thread holds the mutex.
LockFree(holder) == holder = "none"

-----------------------------------------------------------------------------
(* vm/style.rs : selectors and styles.                                     *)

\* Selector::new(widget)
SelectorNew(widget) ==
    [widget |-> widget, with_classes |-> {}, without_classes |-> {}]

\* Selector::build(widget, with, without)
SelectorBuild(widget, with, without) ==
    [widget |-> widget, with_classes |-> with, without_classes |-> without]

\* NekoStyle::new(selector)
NekoStyleNew(selector) == [selector |-> selector, properties |-> EmptyMap]

\* NekoStyle::set_property
StyleSetProperty(style, property, value) ==
    [style EXCEPT !.properties = Put(style.properties, property, value)]

-----------------------------------------------------------------------------
(* vm/classpath.rs : class paths and the two matching modes.               *)

\* WidgetClasses::new(widget)
WidgetClassesNew(widget) == [widget |-> widget, classes |-> {}]

\* A match of the classes alone, whatever the widget.
WidgetClassesMatchesAnyWidget(wc, selector) ==
    /\ selector.with_classes \subseteq wc.classes
    /\ selector.without_classes \cap wc.classes = {}

\* WidgetClasses::matches(selector)
WidgetClassesMatches(wc, selector) ==
    IF wc.widget # selector.widget THEN FALSE
    ELSE IF \E c \in selector.with_classes : c \notin wc.classes THEN FALSE
    ELSE IF \E c \in selector.without_classes : c \in wc.classes THEN FALSE
    ELSE TRUE

\* The loop of ClassPath::matches from index `depth` (0-based) on.
RECURSIVE MatchesLoop(_, _, _, _)
MatchesLoop(path, hierarchy, offset, depth) ==
    IF depth >= Len(hierarchy) THEN TRUE
    ELSE IF ~WidgetClassesMatches(path[depth + offset + 1], hierarchy[depth + 1])
         THEN FALSE
         ELSE MatchesLoop(path, hierarchy, offset, depth + 1)

\* ClassPath::matches
Matches(path, hierarchy) ==
    IF Len(path) < Len(hierarchy) THEN FALSE
    ELSE MatchesLoop(path, hierarchy, Len(path) - Len(hierarchy), 0)

\* A partial match that compares from the root instead of the leaf.
RECURSIVE PartialMatchesLoopFromRoot(_, _, _, _)
PartialMatchesLoopFromRoot(path, hierarchy, offset, depth) ==
    IF depth >= Len(hierarchy) THEN TRUE
    ELSE IF hierarchy[depth + 1].widget # path[depth + 1].widget
         THEN FALSE
         ELSE PartialMatchesLoopFromRoot(path, hierarchy, offset, depth + 1)

\* The loop of ClassPath::partial_matches from index `depth` (0-based) on.
RECURSIVE PartialMatchesLoop(_, _, _, _)
PartialMatchesLoop(path, hierarchy, offset, depth) ==
    IF depth >= Len(hierarchy) THEN TRUE
    ELSE IF hierarchy[depth + 1].widget # path[depth + offset + 1].widget
         THEN FALSE
         ELSE PartialMatchesLoop(path, hierarchy, offset, depth + 1)

\* ClassPath::partial_matches
PartialMatches(path, hierarchy) ==
    IF Len(path) < Len(hierarchy) THEN FALSE
    ELSE PartialMatchesLoop(path, hierarchy, Len(path) - Len(hierarchy), 0)

-----------------------------------------------------------------------------
(* vm/context.rs : the module context.                                     *)

\* NekoContext::default()
NewContext == [variables |-> EmptyMap, styles |-> <<>>]

\* A set_variable under which a variable declared as a reference stays tied
\* to the variable it names: every variable that holds the old value of the
\* redeclared one follows it to the new value.
SetVariableFollowing(ctx, variable, value) ==
    [ctx EXCEPT !.variables =
        Put([v \in DOMAIN ctx.variables |->
                IF variable \in DOMAIN ctx.variables
                   /\ ctx.variables[v] = ctx.variables[variable]
                THEN value ELSE ctx.variables[v]],
            variable, value)]

\* NekoContext::set_variable
SetVariable(ctx, variable, value) ==
    [ctx EXCEPT !.variables = Put(ctx.variables, variable, value)]

\* A merge in which the existing style's values win.
MergePropertiesKeep(existing, style) ==
    [existing EXCEPT !.properties =
        [p \in (DOMAIN existing.properties) \cup (DOMAIN style.properties) |->
            IF p \in DOMAIN existing.properties
            THEN existing.properties[p]
            ELSE style.properties[p]]]

\* The property loop of add_style: every property of the incoming style is
\* set on the existing one.
MergeProperties(existing, style) ==
    [existing EXCEPT !.properties =
        [p \in (DOMAIN existing.properties) \cup (DOMAIN style.properties) |->
            IF p \in DOMAIN style.properties
            THEN style.properties[p]
            ELSE existing.properties[p]]]

\* A scan that, on finding the selector, takes the entry out and puts the
\* merged style at the end of the list.
RECURSIVE AddStyleLoopMoveToEnd(_, _, _)
AddStyleLoopMoveToEnd(styles, style, i) ==
    IF i > Len(styles) THEN Append(styles, style)
    ELSE IF styles[i].selector # style.selector
         THEN AddStyleLoopMoveToEnd(styles, style, i + 1)
         ELSE Append(SubSeq(styles, 1, i - 1) \o SubSeq(styles, i + 1, Len(styles)),
                     MergeProperties(styles[i], style))

\* The scan of add_style over the style list from index i on.
RECURSIVE AddStyleLoop(_, _, _)
AddStyleLoop(styles, style, i) ==
    IF i > Len(styles) THEN Append(styles, style)
    ELSE IF styles[i].selector # style.selector
         THEN AddStyleLoop(styles, style, i + 1)
         ELSE [styles EXCEPT ![i] = MergeProperties(styles[i], style)]

\* An add_style that pushes the style without looking for its selector.
AddStylePush(ctx, style) ==
    [ctx EXCEPT !.styles = Append(@, style)]

\* NekoContext::add_style
AddStyle(ctx, style) ==
    [ctx EXCEPT !.styles = AddStyleLoop(ctx.styles, style, 1)]

\* add_style for every style of a list, in order.
RECURSIVE AddStyles(_, _, _)
AddStyles(ctx, styles, i) ==
    IF i > Len(styles) THEN ctx
    ELSE AddStyles(AddStyle(ctx, styles[i]), styles, i + 1)

\* An append under which the value this context already has stands: an
\* earlier import wins over a later one.
ContextAppendKeep(ctx, other) ==
    AddStyles([ctx EXCEPT !.variables =
                  [v \in (DOMAIN ctx.variables) \cup (DOMAIN other.variables) |->
                      IF v \in DOMAIN ctx.variables
                      THEN ctx.variables[v]
                      ELSE other.variables[v]]],
              other.styles, 1)

\* NekoContext::append
ContextAppend(ctx, other) ==
    LET merged == [ctx EXCEPT !.variables =
                     [v \in (DOMAIN ctx.variables) \cup (DOMAIN other.variables) |->
                         IF v \in DOMAIN other.variables
                         THEN other.variables[v]
                         ELSE ctx.variables[v]]]
    IN  AddStyles(merged, other.styles, 1)

-----------------------------------------------------------------------------
(* vm/properties.rs : widget definitions and property values.              *)

\* WidgetDefinition::default_style
DefaultStyle(def) ==
    [selector   |-> <<SelectorNew(def.widget)>>,
     properties |-> [p \in DOMAIN def.properties |-> def.properties[p].default_value]]

\* NekoMaidVMError values.
ModuleNotFound(path, pos) ==
    [kind |-> "ModuleNotFound", name |-> path, pos |-> pos]
VariableNotFound(name, pos) ==
    [kind |-> "VariableNotFound", name |-> name, pos |-> pos]
UnknownWidget(name, pos) ==
    [kind |-> "UnknownWidget", name |-> name, pos |-> pos]
InvalidProperty(property, widget, pos) ==
    [kind |-> "InvalidProperty", name |-> property, widget |-> widget, pos |-> pos]

\* PropertyValue::from_property_node_value.  A literal keeps its variant and
\* payload; a variable reference interns the name and reads the context.
FromPropertyNodeValue(value, pos, ctx, al) ==
    IF value.t = "Variable"
    THEN Then(GetOrCreate(al, "variable", value.name), LAMBDA g :
             IF g.id \in DOMAIN ctx.variables
             THEN [al |-> g.al, ok |-> TRUE, value |-> ctx.variables[g.id]]
             ELSE [al |-> g.al, ok |-> FALSE,
                   err |-> VariableNotFound(value.name, pos \o <<0>>)])
    ELSE [al |-> al, ok |-> TRUE, value |-> [t |-> value.t, v |-> value.v]]

-----------------------------------------------------------------------------
(* vm/style.rs : expansion of a style node into resolved styles.           *)

\* The loop over node.selector.parts: each class name is interned and added
\* to the with- or the without-set of the selector.
RECURSIVE SelectorParts(_, _, _, _)
SelectorParts(parts, i, al, selector) ==
    IF i > Len(parts) THEN [al |-> al, selector |-> selector]
    ELSE Then(GetOrCreate(al, "classes", parts[i].class), LAMBDA g :
             IF parts[i].part = "WithClass"
             THEN SelectorParts(parts, i + 1, g.al,
                    [selector EXCEPT !.with_classes = @ \cup {g.id}])
             ELSE SelectorParts(parts, i + 1, g.al,
                    [selector EXCEPT !.without_classes = @ \cup {g.id}]))

\* A property loop that gives up the rest of the level's properties at the
\* first one the widget does not define.
RECURSIVE StylePropertiesStop(_, _, _, _, _, _, _)
StylePropertiesStop(props, k, pos, widgetName, def, ctx, st) ==
    IF k > Len(props) THEN st
    ELSE Then(GetOrCreate(st.al, "properties", props[k].name), LAMBDA g :
             IF g.id \notin DOMAIN def.properties
             THEN [st EXCEPT !.al = g.al,
                             !.errors = Append(@, InvalidProperty(props[k].name,
                                                   widgetName, pos \o <<0, k>>))]
             ELSE Then(FromPropertyNodeValue(props[k].value, pos \o <<0, k>>,
                                             ctx, g.al), LAMBDA r :
                      IF ~r.ok
                      THEN StylePropertiesStop(props, k + 1, pos, widgetName, def, ctx,
                             [st EXCEPT !.al = r.al, !.errors = Append(@, r.err)])
                      ELSE StylePropertiesStop(props, k + 1, pos, widgetName, def, ctx,
                             [st EXCEPT !.al = r.al,
                                        !.style = StyleSetProperty(@, g.id, r.value)])))

\* The property loop of build_styles_recursive.  st = [al, errors, style].
RECURSIVE StyleProperties(_, _, _, _, _, _, _)
StyleProperties(props, k, pos, widgetName, def, ctx, st) ==
    IF k > Len(props) THEN st
    ELSE Then(GetOrCreate(st.al, "properties", props[k].name), LAMBDA g :
             IF g.id \notin DOMAIN def.properties
             THEN StyleProperties(props, k + 1, pos, widgetName, def, ctx,
                    [st EXCEPT !.al = g.al,
                               !.errors = Append(@, InvalidProperty(props[k].name,
                                                     widgetName, pos \o <<0, k>>))])
             ELSE Then(FromPropertyNodeValue(props[k].value, pos \o <<0, k>>,
                                             ctx, g.al), LAMBDA r :
                      IF ~r.ok
                      THEN StyleProperties(props, k + 1, pos, widgetName, def, ctx,
                             [st EXCEPT !.al = r.al, !.errors = Append(@, r.err)])
                      ELSE StyleProperties(props, k + 1, pos, widgetName, def, ctx,
                             [st EXCEPT !.al = r.al,
                                        !.style = StyleSetProperty(@, g.id, r.value)])))

RECURSIVE BuildStylesRecursive(_, _, _, _, _)
RECURSIVE BuildStyleChildren(_, _, _, _, _, _)

\* The loop over node.children of build_styles_recursive.
BuildStyleChildren(children, i, hierarchy, pos, ctx, st) ==
    IF i > Len(children) THEN st
    ELSE Then(BuildStylesRecursive(children[i], hierarchy, pos \o <<i>>, ctx, st),
              LAMBDA st1 :
                 BuildStyleChildren(children, i + 1, hierarchy, pos, ctx, st1))

\* An expansion that emits a node's own style before those of its children.
BuildStylesParentFirst(node, hierarchy, pos, ctx, st) ==
    Then(GetOrCreate(st.al, "widgets", node.selector.widget), LAMBDA g :
        IF g.id \notin DOMAIN widgets
        THEN [st EXCEPT !.al = g.al,
                        !.errors = Append(@, UnknownWidget(node.selector.widget, pos))]
        ELSE Then(SelectorParts(node.selector.parts, 1, g.al, SelectorNew(g.id)),
                  LAMBDA sp :
             Then(Append(hierarchy, sp.selector), LAMBDA sh2 :
             Then(IF node.properties # <<>>
                  THEN Then(StyleProperties(node.properties, 1, pos,
                               node.selector.widget, widgets[g.id], ctx,
                               [al |-> sp.al, errors |-> st.errors,
                                style |-> NekoStyleNew(sh2)]), LAMBDA r :
                           [al |-> r.al, errors |-> r.errors,
                            styles |-> Append(st.styles, r.style)])
                  ELSE [st EXCEPT !.al = sp.al], LAMBDA st1 :
                 BuildStyleChildren(node.children, 1, sh2, pos, ctx, st1)))))

\* An expansion that emits a style for every level, with or without
\* properties of its own.
BuildStylesEveryLevel(node, hierarchy, pos, ctx, st) ==
    Then(GetOrCreate(st.al, "widgets", node.selector.widget), LAMBDA g :
        IF g.id \notin DOMAIN widgets
        THEN [st EXCEPT !.al = g.al,
                        !.errors = Append(@, UnknownWidget(node.selector.widget, pos))]
        ELSE Then(SelectorParts(node.selector.parts, 1, g.al, SelectorNew(g.id)),
                  LAMBDA sp :
             Then(Append(hierarchy, sp.selector), LAMBDA sh2 :
             Then(BuildStyleChildren(node.children, 1, sh2, pos, ctx,
                                     [st EXCEPT !.al = sp.al]), LAMBDA st1 :
             Then(StyleProperties(node.properties, 1, pos,
                     node.selector.widget, widgets[g.id], ctx,
                     [al |-> st1.al, errors |-> st1.errors,
                      style |-> NekoStyleNew(sh2)]), LAMBDA r :
                 [al |-> r.al, errors |-> r.errors,
                  styles |-> Append(st1.styles, r.style)])))))

\* build_styles_recursive.  st = [al, errors, styles].
BuildStylesRecursive(node, hierarchy, pos, ctx, st) ==
    Then(GetOrCreate(st.al, "widgets", node.selector.widget), LAMBDA g :
        IF g.id \notin DOMAIN widgets
        THEN [st EXCEPT !.al = g.al,
                        !.errors = Append(@, UnknownWidget(node.selector.widget, pos))]
        ELSE Then(SelectorParts(node.selector.parts, 1, g.al, SelectorNew(g.id)),
                  LAMBDA sp :
             Then(Append(hierarchy, sp.selector), LAMBDA sh2 :
             Then(BuildStyleChildren(node.children, 1, sh2, pos, ctx,
                                     [st EXCEPT !.al = sp.al]), LAMBDA st1 :
                 IF node.properties # <<>>
                 THEN Then(StyleProperties(node.properties, 1, pos,
                              node.selector.widget, widgets[g.id], ctx,
                              [al |-> st1.al, errors |-> st1.errors,
                               style |-> NekoStyleNew(sh2)]), LAMBDA r :
                          [al |-> r.al, errors |-> r.errors,
                           styles |-> Append(st1.styles, r.style)])
                 ELSE st1))))

\* NekoStyle::from_style_node: the styles of one top-level style node.
FromStyleNode(node, pos, ctx, al, errors) ==
    BuildStylesRecursive(node, <<>>, pos, ctx,
                         [al |-> al, errors |-> errors, styles |-> <<>>])

-----------------------------------------------------------------------------
(* vm/element.rs and vm/mod.rs : resolution of a layout tree.              *)

\* NekoElement::new(classpath)
NekoElementNew(classpath) ==
    [widget    |-> classpath[Len(classpath)].widget,
     classpath |-> classpath,
     styles    |-> <<>>,
     children  |-> <<>>]

\* An add_style that puts the style at the back of the list.
ElementAddStyleBack(element, style) ==
    [element EXCEPT !.styles = Append(@, style)]

\* NekoElement::add_style: the style becomes the first of the list.
ElementAddStyle(element, style) ==
    [element EXCEPT !.styles = <<style>> \o @]

\* An add_child that puts the child in front of its elder siblings.
ElementAddChildFront(element, child) ==
    [element EXCEPT !.children = <<child>> \o @]

\* NekoElement::add_child
ElementAddChild(element, child) ==
    [element EXCEPT !.children = Append(@, child)]

\* The loop over node.classes: each class is interned and added.
RECURSIVE LayoutClasses(_, _, _, _)
LayoutClasses(classes, i, al, wc) ==
    IF i > Len(classes) THEN [al |-> al, wc |-> wc]
    ELSE Then(GetOrCreate(al, "classes", classes[i]), LAMBDA g :
             LayoutClasses(classes, i + 1, g.al,
                           [wc EXCEPT !.classes = @ \cup {g.id}]))

\* The loop over ctx.styles(): every partially matching style is added.
RECURSIVE ImportStyles(_, _, _)
ImportStyles(styles, i, element) ==
    IF i > Len(styles) THEN element
    ELSE IF PartialMatches(element.classpath, styles[i].selector)
         THEN ImportStyles(styles, i + 1, ElementAddStyle(element, styles[i]))
         ELSE ImportStyles(styles, i + 1, element)

\* An inline selector of the element's own widget alone, without the
\* widgets of its ancestors.
InlineSelectorOwn(classpath) ==
    <<SelectorNew(classpath[Len(classpath)].widget)>>

\* The selector of the inline style: one class-free selector per entry of
\* the element's class path.
InlineSelector(classpath) ==
    [d \in 1..Len(classpath) |-> SelectorNew(classpath[d].widget)]

\* An inline property loop that stops at the first invalid property.
RECURSIVE LayoutPropertiesFailFast(_, _, _, _, _, _, _)
LayoutPropertiesFailFast(props, k, pos, widgetName, def, ctx, st) ==
    IF k > Len(props) THEN st
    ELSE Then(GetOrCreate(st.al, "properties", props[k].name), LAMBDA g :
             IF g.id \notin DOMAIN def.properties
             THEN [st EXCEPT !.al = g.al,
                             !.errors = Append(@, InvalidProperty(props[k].name,
                                                   widgetName, pos \o <<0, k>>))]
             ELSE Then(FromPropertyNodeValue(props[k].value, pos \o <<0, k>>,
                                             ctx, g.al), LAMBDA r :
                      IF ~r.ok
                      THEN LayoutPropertiesFailFast(props, k + 1, pos, widgetName, def, ctx,
                             [st EXCEPT !.al = r.al, !.errors = Append(@, r.err)])
                      ELSE LayoutPropertiesFailFast(props, k + 1, pos, widgetName, def, ctx,
                             [st EXCEPT !.al = r.al,
                                        !.style = StyleSetProperty(@, g.id, r.value)])))

\* The inline property loop of resolve_layout_node_recursive.
\* st = [al, errors, style].
RECURSIVE LayoutProperties(_, _, _, _, _, _, _)
LayoutProperties(props, k, pos, widgetName, def, ctx, st) ==
    IF k > Len(props) THEN st
    ELSE Then(GetOrCreate(st.al, "properties", props[k].name), LAMBDA g :
             IF g.id \notin DOMAIN def.properties
             THEN LayoutProperties(props, k + 1, pos, widgetName, def, ctx,
                    [st EXCEPT !.al = g.al,
                               !.errors = Append(@, InvalidProperty(props[k].name,
                                                     widgetName, pos \o <<0, k>>))])
             ELSE Then(FromPropertyNodeValue(props[k].value, pos \o <<0, k>>,
                                             ctx, g.al), LAMBDA r :
                      IF ~r.ok
                      THEN LayoutProperties(props, k + 1, pos, widgetName, def, ctx,
                             [st EXCEPT !.al = r.al, !.errors = Append(@, r.err)])
                      ELSE LayoutProperties(props, k + 1, pos, widgetName, def, ctx,
                             [st EXCEPT !.al = r.al,
                                        !.style = StyleSetProperty(@, g.id, r.value)])))

RECURSIVE ResolveLayoutNodeRecursive(_, _, _, _, _)
RECURSIVE ResolveLayoutChildren(_, _, _, _, _)
RECURSIVE ResolveLayoutChildrenBreak(_, _, _, _, _)
RECURSIVE ResolveLayoutChildrenNoPath(_, _, _, _, _)

\* A child loop that leaves at the first child that yields no element.
ResolveLayoutChildrenBreak(children, i, pos, ctx, st) ==
    IF i > Len(children) THEN st
    ELSE Then(ResolveLayoutNodeRecursive(children[i], st.element.classpath,
                                         pos \o <<i>>, ctx,
                                         [al |-> st.al, errors |-> st.errors]),
              LAMBDA r :
             IF ~r.some
             THEN [al |-> r.al, errors |-> r.errors, element |-> st.element]
             ELSE ResolveLayoutChildrenBreak(children, i + 1, pos, ctx,
                    [al |-> r.al, errors |-> r.errors,
                     element |-> ElementAddChild(st.element, r.element)]))

\* A child loop that starts every child on a class path of its own.
ResolveLayoutChildrenNoPath(children, i, pos, ctx, st) ==
    IF i > Len(children) THEN st
    ELSE Then(ResolveLayoutNodeRecursive(children[i], <<>>,
                                         pos \o <<i>>, ctx,
                                         [al |-> st.al, errors |-> st.errors]),
              LAMBDA r :
         Then([al |-> r.al, errors |-> r.errors,
               element |-> IF r.some THEN ElementAddChild(st.element, r.element)
                           ELSE st.element],
              LAMBDA st1 : ResolveLayoutChildrenNoPath(children, i + 1, pos, ctx, st1)))


\* The loop over node.children.  st = [al, errors, element].
ResolveLayoutChildren(children, i, pos, ctx, st) ==
    IF i > Len(children) THEN st
    ELSE Then(ResolveLayoutNodeRecursive(children[i], st.element.classpath,
                                         pos \o <<i>>, ctx,
                                         [al |-> st.al, errors |-> st.errors]),
              LAMBDA r :
         Then([al |-> r.al, errors |-> r.errors,
               element |-> IF r.some THEN ElementAddChild(st.element, r.element)
                           ELSE st.element],
              LAMBDA st1 : ResolveLayoutChildren(children, i + 1, pos, ctx, st1)))

\* resolve_layout_node_recursive.  classpath is <<>> for None.
\* st = [al, errors]; the result adds [some, element].
ResolveLayoutNodeRecursive(node, classpath, pos, ctx, st) ==
    Then(GetOrCreate(st.al, "widgets", node.widget), LAMBDA g :
        IF g.id \notin DOMAIN widgets
        THEN [al |-> g.al,
              errors |-> Append(st.errors, UnknownWidget(node.widget, pos)),
              some |-> FALSE, element |-> <<>>]
        ELSE Then(LayoutClasses(node.classes, 1, g.al, WidgetClassesNew(g.id)),
                  LAMBDA lc :
             Then(Append(classpath, lc.wc), LAMBDA cpx :
             Then(ElementAddStyle(NekoElementNew(cpx), DefaultStyle(widgets[g.id])),
                  LAMBDA e0 :
             Then(ImportStyles(ctx.styles, 1, e0), LAMBDA e1 :
             Then(IF node.properties # <<>>
                  THEN LayoutProperties(node.properties, 1, pos, node.widget,
                           widgets[g.id], ctx,
                           [al |-> lc.al, errors |-> st.errors,
                            style |-> NekoStyleNew(InlineSelector(cpx))])
                  ELSE [al |-> lc.al, errors |-> st.errors, style |-> <<>>],
                  LAMBDA r :
             Then(IF node.properties # <<>>
                  THEN ElementAddStyle(e1, r.style)
                  ELSE e1, LAMBDA e2 :
             Then(ResolveLayoutChildren(node.children, 1, pos, ctx,
                      [al |-> r.al, errors |-> r.errors, element |-> e2]),
                  LAMBDA rc :
                 [al |-> rc.al, errors |-> rc.errors,
                  some |-> TRUE, element |-> rc.element]))))))))

-----------------------------------------------------------------------------
(* vm/mod.rs : NekoMaidVM::resolve_module.                                 *)

\* The import loop.  st = [ctx, errors].
RECURSIVE ResolveImports(_, _, _)
ResolveImports(imports, i, st) ==
    IF i > Len(imports) THEN st
    ELSE IF imports[i] \notin DOMAIN contexts
         THEN ResolveImports(imports, i + 1,
                [st EXCEPT !.errors = Append(@, ModuleNotFound(imports[i], <<0, i>>))])
         ELSE ResolveImports(imports, i + 1,
                [st EXCEPT !.ctx = ContextAppend(@, contexts[imports[i]])])

\* A variable loop that leaves at the first unresolved reference.
RECURSIVE ResolveVariablesBreak(_, _, _)
ResolveVariablesBreak(variables, i, st) ==
    IF i > Len(variables) THEN st
    ELSE Then(GetOrCreate(st.al, "variable", variables[i].name), LAMBDA g :
         Then(FromPropertyNodeValue(variables[i].value, <<1, i>>, st.ctx, g.al),
              LAMBDA r :
             IF ~r.ok
             THEN [st EXCEPT !.al = r.al, !.errors = Append(@, r.err)]
             ELSE ResolveVariablesBreak(variables, i + 1,
                    [st EXCEPT !.al = r.al,
                               !.ctx = SetVariable(@, g.id, r.value)])))

\* The variable loop.  st = [al, ctx, errors].
RECURSIVE ResolveVariables(_, _, _)
ResolveVariables(variables, i, st) ==
    IF i > Len(variables) THEN st
    ELSE Then(GetOrCreate(st.al, "variable", variables[i].name), LAMBDA g :
         Then(FromPropertyNodeValue(variables[i].value, <<1, i>>, st.ctx, g.al),
              LAMBDA r :
             IF ~r.ok
             THEN ResolveVariables(variables, i + 1,
                    [st EXCEPT !.al = r.al, !.errors = Append(@, r.err)])
             ELSE ResolveVariables(variables, i + 1,
                    [st EXCEPT !.al = r.al,
                               !.ctx = SetVariable(@, g.id, r.value)])))

\* The style loop.  st = [al, ctx, errors].
RECURSIVE ResolveStyles(_, _, _)
ResolveStyles(styles, i, st) ==
    IF i > Len(styles) THEN st
    ELSE Then(FromStyleNode(styles[i], <<2, i>>, st.ctx, st.al, st.errors),
              LAMBDA r :
         Then([al |-> r.al, errors |-> r.errors,
               ctx |-> AddStyles(st.ctx, r.styles, 1)],
              LAMBDA st1 : ResolveStyles(styles, i + 1, st1)))

\* A layout loop that gives up once an error has been recorded.
RECURSIVE ResolveLayoutsFailFast(_, _, _, _)
ResolveLayoutsFailFast(layouts, i, ctx, st) ==
    IF i > Len(layouts) \/ st.errors # <<>> THEN st
    ELSE Then(ResolveLayoutNodeRecursive(layouts[i], <<>>, <<3, i>>, ctx,
                                         [al |-> st.al, errors |-> st.errors]),
              LAMBDA r :
         Then([al |-> r.al, errors |-> r.errors,
               elements |-> IF r.some THEN Append(st.elements, r.element)
                            ELSE st.elements],
              LAMBDA st1 : ResolveLayoutsFailFast(layouts, i + 1, ctx, st1)))

\* The layout loop.  st = [al, errors, elements].
RECURSIVE ResolveLayouts(_, _, _, _)
ResolveLayouts(layouts, i, ctx, st) ==
    IF i > Len(layouts) THEN st
    ELSE Then(ResolveLayoutNodeRecursive(layouts[i], <<>>, <<3, i>>, ctx,
                                         [al |-> st.al, errors |-> st.errors]),
              LAMBDA r :
         Then([al |-> r.al, errors |-> r.errors,
               elements |-> IF r.some THEN Append(st.elements, r.element)
                            ELSE st.elements],
              LAMBDA st1 : ResolveLayouts(layouts, i + 1, ctx, st1)))

\* A commit that ignores the error list.
CommitAlways(errors) == TRUE

\* The commit decision of resolve_module: the context is stored exactly when
\* no error was collected.
Commit(errors) == errors = <<>>

\* A resolve_module that takes the imported contexts out of the module
\* table instead of cloning them.
ResolveModuleMovingImports(al, name, module) ==
    Then(ResolveImports(module.imports, 1, [ctx |-> NewContext, errors |-> <<>>]),
         LAMBDA s1 :
    Then(ResolveVariables(module.variables, 1,
                          [al |-> al, ctx |-> s1.ctx, errors |-> s1.errors]),
         LAMBDA s2 :
    Then(ResolveStyles(module.styles, 1, s2), LAMBDA s3 :
    Then(ResolveLayouts(module.layouts, 1, s3.ctx,
                        [al |-> s3.al, errors |-> s3.errors, elements |-> <<>>]),
         LAMBDA s4 :
    Then([n \in DOMAIN contexts \ Range(module.imports) |-> contexts[n]],
         LAMBDA rest :
        IF Commit(s4.errors)
        THEN [al |-> s4.al, contexts |-> Put(rest, name, s3.ctx),
              ok |-> TRUE, elements |-> s4.elements, errors |-> <<>>,
              collected |-> s4.errors]
        ELSE [al |-> s4.al, contexts |-> rest,
              ok |-> FALSE, elements |-> <<>>, errors |-> s4.errors,
              collected |-> s4.errors])))))

\* A resolve_module that resolves the styles before the variables.
ResolveModuleStylesFirst(al, name, module) ==
    Then(ResolveImports(module.imports, 1, [ctx |-> NewContext, errors |-> <<>>]),
         LAMBDA s1 :
    Then(ResolveStyles(module.styles, 1,
                       [al |-> al, ctx |-> s1.ctx, errors |-> s1.errors]),
         LAMBDA s2 :
    Then(ResolveVariables(module.variables, 1, s2), LAMBDA s3 :
    Then(ResolveLayouts(module.layouts, 1, s3.ctx,
                        [al |-> s3.al, errors |-> s3.errors, elements |-> <<>>]),
         LAMBDA s4 :
        IF Commit(s4.errors)
        THEN [al |-> s4.al, contexts |-> Put(contexts, name, s3.ctx),
              ok |-> TRUE, elements |-> s4.elements, errors |-> <<>>,
              collected |-> s4.errors]
        ELSE [al |-> s4.al, contexts |-> contexts,
              ok |-> FALSE, elements |-> <<>>, errors |-> s4.errors,
              collected |-> s4.errors]))))

\* resolve_module(module_name, module), as a function of the VM state:
\* the allocator, the module table and the result afterwards.
ResolveModule(al, name, module) ==
    Then(ResolveImports(module.imports, 1, [ctx |-> NewContext, errors |-> <<>>]),
         LAMBDA s1 :
    Then(ResolveVariables(module.variables, 1,
                          [al |-> al, ctx |-> s1.ctx, errors |-> s1.errors]),
         LAMBDA s2 :
    Then(ResolveStyles(module.styles, 1, s2), LAMBDA s3 :
    Then(ResolveLayouts(module.layouts, 1, s3.ctx,
                        [al |-> s3.al, errors |-> s3.errors, elements |-> <<>>]),
         LAMBDA s4 :
        IF Commit(s4.errors)
        THEN [al |-> s4.al, contexts |-> Put(contexts, name, s3.ctx),
              ok |-> TRUE, elements |-> s4.elements, errors |-> <<>>,
              collected |-> s4.errors]
        ELSE [al |-> s4.al, contexts |-> contexts,
              ok |-> FALSE, elements |-> <<>>, errors |-> s4.errors,
              collected |-> s4.errors]))))

-----------------------------------------------------------------------------
(* The host: names interned and widgets registered before any resolution,  *)
(* as the set-up of vm/test.rs does it.                                    *)

\* get_or_create_<kind> for each name of a list, in order.
RECURSIVE InternAll(_, _, _, _)
InternAll(al, kind, names, i) ==
    IF i > Len(names) THEN al
    ELSE InternAll(GetOrCreate(al, kind, names[i]).al, kind, names, i + 1)

HostAlloc ==
    InternAll(InternAll(NewAllocator, "widgets", <<"button", "div">>, 1),
              "properties", <<"width", "color">>, 1)

\* PropertyDefinition::new
PropertyDefinitionNew(property, default) ==
    [property |-> property, default_value |-> default]

\* Property literals; a payload is written as its text.
Str(s)   == [t |-> "String", v |-> s]
Px(n)    == [t |-> "Pixels", v |-> n]
Color(c) == [t |-> "Color", v |-> c]
VarRef(n) == [t |-> "Variable", name |-> n]

\* register_widget for div {width} and button {width, color}.
HostWidgets ==
    LET button == HostAlloc.widgets["button"]
        div    == HostAlloc.widgets["div"]
        width  == HostAlloc.properties["width"]
        color  == HostAlloc.properties["color"]
    IN  Put(Put(EmptyMap, div,
                [widget |-> div,
                 properties |-> Put(EmptyMap, width,
                                    PropertyDefinitionNew(width, Str("auto")))]),
            button,
            [widget |-> button,
             properties |-> Put(Put(EmptyMap, width,
                                    PropertyDefinitionNew(width, Str("auto"))),
                                color, PropertyDefinitionNew(color, Color("none")))])

-----------------------------------------------------------------------------
(* parse/nodes.rs : the module AST handed to resolve_module.               *)

PropertyNode(name, value) == [name |-> name, value |-> value]
WithClass(c)    == [part |-> "WithClass", class |-> c]
WithoutClass(c) == [part |-> "WithoutClass", class |-> c]
StyleNode(widget, parts, properties, children) ==
    [selector |-> [widget |-> widget, parts |-> parts],
     properties |-> properties, children |-> children]
LayoutNode(widget, classes, properties, children) ==
    [widget |-> widget, classes |-> classes,
     properties |-> properties, children |-> children]
ModuleNode(imports, variables, styles, layouts) ==
    [imports |-> imports, variables |-> variables,
     styles |-> styles, layouts |-> layouts]

-----------------------------------------------------------------------------
(* The modules handed to resolve_module.  Registered widgets are div       *)
(* {width} and button {width, color}; blob is not registered; bad is a     *)
(* property no widget defines; c is a variable no module declares.         *)

MaxCalls == 2

ModuleNames == {"A", "B"}

\* var a: #red;   var b: $a;  ...
VarA(c) == PropertyNode("a", Color(c))
VarBfromA == PropertyNode("b", VarRef("a"))
VarAfromB == PropertyNode("a", VarRef("b"))
VarBfromC == PropertyNode("b", VarRef("c"))

VariableChoices ==
    { <<>>,
      <<VarA("red")>>,
      <<VarA("white")>>,
      <<VarA("red"), VarBfromA>>,
      <<VarBfromA, VarA("red")>>,
      <<VarBfromC, VarAfromB>>,
      <<VarA("red"), VarBfromA, VarA("white")>> }

\* style button { color: $a; }
StyleButtonA ==
    StyleNode("button", <<>>, <<PropertyNode("color", VarRef("a"))>>, <<>>)
\* style button { width: 1px; color: #red; }
StyleButton ==
    StyleNode("button", <<>>, <<PropertyNode("width", Px("1")),
                                PropertyNode("color", Color("red"))>>, <<>>)
\* style button +hover { color: #green; }
StyleHover ==
    StyleNode("button", <<WithClass("hover")>>,
              <<PropertyNode("color", Color("green"))>>, <<>>)
\* style button +pressed !hover { color: #blue; }
StylePressed ==
    StyleNode("button", <<WithClass("pressed"), WithoutClass("hover")>>,
              <<PropertyNode("color", Color("blue"))>>, <<>>)
\* style button { width: 3px; }
StyleButtonAgain ==
    StyleNode("button", <<>>, <<PropertyNode("width", Px("3"))>>, <<>>)
\* style div +menu { width: 2px; with button +hover { color: $a; } }
StyleNested ==
    StyleNode("div", <<WithClass("menu")>>, <<PropertyNode("width", Px("2"))>>,
              <<StyleNode("button", <<WithClass("hover")>>,
                          <<PropertyNode("color", VarRef("a"))>>, <<>>)>>)
\* style div { with button { color: #white; } }
StyleOnlyNested ==
    StyleNode("div", <<>>, <<>>,
              <<StyleNode("button", <<>>,
                          <<PropertyNode("color", Color("white"))>>, <<>>)>>)

\* layout div { +menu; with button { color: $a; width: 5px; } }
LayoutMenu ==
    LayoutNode("div", <<"menu">>, <<>>,
               <<LayoutNode("button", <<>>,
                            <<PropertyNode("color", VarRef("a")),
                              PropertyNode("width", Px("5"))>>, <<>>)>>)
\* layout button { +hover; }
LayoutButton == LayoutNode("button", <<"hover">>, <<>>, <<>>)
\* layout div { with div { with button { } } with button { width: 4px; } }
LayoutDeep ==
    LayoutNode("div", <<>>, <<>>,
               <<LayoutNode("div", <<>>, <<>>,
                            <<LayoutNode("button", <<>>, <<>>, <<>>)>>),
                 LayoutNode("button", <<>>, <<PropertyNode("width", Px("4"))>>, <<>>)>>)

\* Modules about variables: declaration order, references, imports.
VariableModules ==
    { ModuleNode(i, v, s, l) :
        i \in {<<>>, <<"A">>, <<"X">>},
        v \in VariableChoices,
        s \in {<<>>, <<StyleButtonA>>},
        l \in {<<>>, <<LayoutMenu>>} }

\* Modules about the cascade: several rules, nesting, redeclared selectors.
CascadeModules ==
    { ModuleNode(i, v, s, l) :
        i \in {<<>>, <<"A">>},
        v \in {<<VarA("red")>>, <<VarA("white")>>},
        s \in { <<StyleButton, StyleHover, StylePressed>>,
                <<StyleButton, StyleHover, StyleButtonAgain>>,
                <<StyleNested>>,
                <<StyleOnlyNested, StyleHover>>,
                <<StyleHover, StyleButtonA>> },
        l \in {<<LayoutMenu>>, <<LayoutButton, LayoutDeep>>} }

\* style blob { color: #red; with button { bad: 1px; } }
StyleUnknown ==
    StyleNode("blob", <<>>, <<PropertyNode("color", Color("red"))>>,
              <<StyleNode("button", <<>>, <<PropertyNode("bad", Px("1"))>>, <<>>)>>)
\* style div { color: #red; }
StyleInvalid ==
    StyleNode("div", <<>>, <<PropertyNode("color", Color("red"))>>, <<>>)
\* style div { width: $c; with blob { width: 1px; } with button { bad: $c; } }
StyleMixed ==
    StyleNode("div", <<>>, <<PropertyNode("width", VarRef("c"))>>,
              <<StyleNode("blob", <<>>, <<PropertyNode("width", Px("1"))>>, <<>>),
                StyleNode("button", <<>>, <<PropertyNode("bad", VarRef("c"))>>, <<>>)>>)

\* layout blob { }
LayoutUnknown == LayoutNode("blob", <<>>, <<>>, <<>>)
\* layout button { bad: 1px; color: $c; width: 2px; }
LayoutInvalid ==
    LayoutNode("button", <<>>, <<PropertyNode("bad", Px("1")),
                                 PropertyNode("color", VarRef("c")),
                                 PropertyNode("width", Px("2"))>>, <<>>)
\* layout div { with blob { bad: 1px; with blob { } with button { bad: 1px; } }
\*              with button { color: $c; } }
LayoutMixed ==
    LayoutNode("div", <<>>, <<>>,
               <<LayoutNode("blob", <<>>, <<PropertyNode("bad", Px("1"))>>,
                            <<LayoutNode("blob", <<>>, <<>>, <<>>),
                              LayoutNode("button", <<>>,
                                         <<PropertyNode("bad", Px("1"))>>, <<>>)>>),
                 LayoutNode("button", <<>>,
                            <<PropertyNode("color", VarRef("c"))>>, <<>>)>>)

\* Modules about semantic errors (and, for contrast, modules without any).
ErrorModules ==
    { ModuleNode(i, v, s, l) :
        i \in {<<>>, <<"X", "A">>},
        v \in {<<>>, <<VarBfromC>>},
        s \in { <<>>, <<StyleButton>>, <<StyleUnknown>>, <<StyleInvalid>>,
                <<StyleMixed, StyleHover>> },
        l \in { <<>>, <<LayoutButton>>, <<LayoutUnknown>>, <<LayoutInvalid>>,
                <<LayoutMixed>>, <<LayoutUnknown, LayoutButton>> } }

-----------------------------------------------------------------------------
(* The state machine of one VM and its host.                               *)

NoCall ==
    [op |-> "init", name |-> "", module |-> ModuleNode(<<>>, <<>>, <<>>, <<>>),
     pre |-> EmptyMap, ok |-> TRUE, elements |-> <<>>, errors |-> <<>>,
     collected |-> <<>>]

Idle == [t \in {} |-> 0]

Init ==
    /\ alloc = HostAlloc
    /\ widgets = HostWidgets
    /\ contexts = EmptyMap
    /\ calls = 0
    /\ last = NoCall
    /\ cp = <<>>
    /\ sh = <<>>
    /\ lock = "none"
    /\ threads = Idle
    /\ tokenizer = NoTokenizer
    /\ parser = NoParser

\* vm.resolve_module(name, module)
Resolve(name, module) ==
    /\ calls < MaxCalls
    /\ \E r \in {ResolveModule(alloc, name, module)} :
           /\ alloc' = r.al
           /\ contexts' = r.contexts
           /\ last' = [op |-> "resolve", name |-> name, module |-> module,
                       pre |-> contexts, ok |-> r.ok, elements |-> r.elements,
                       errors |-> r.errors, collected |-> r.collected]
    /\ calls' = calls + 1
    /\ UNCHANGED <<widgets, cp, sh, lock, threads,
                 tokenizer, parser>>

\* Resolution of modules about variables.
NextVariables ==
    \E name \in ModuleNames, module \in VariableModules : Resolve(name, module)

SpecVariables == Init /\ [][NextVariables]_vars

\* Resolution of modules about the cascade.
NextCascade ==
    \E name \in ModuleNames, module \in CascadeModules : Resolve(name, module)

SpecCascade == Init /\ [][NextCascade]_vars

\* Resolution of modules about semantic errors.
NextErrors ==
    \E name \in ModuleNames, module \in ErrorModules : Resolve(name, module)

SpecErrors == Init /\ [][NextErrors]_vars

-----------------------------------------------------------------------------
(* What a module says, read off its AST without running the resolution.    *)

Resolved == last.op = "resolve"

\* The widget a style node or a layout node names.
NodeWidget(kind, node) ==
    IF kind = "style" THEN node.selector.widget ELSE node.widget

\* A widget name with a registered WidgetDefinition.
Registered(w) == w \in DOMAIN alloc.widgets /\ alloc.widgets[w] \in DOMAIN widgets

\* The registered widget w defines property p.
Defines(w, p) ==
    /\ p \in DOMAIN alloc.properties
    /\ alloc.properties[p] \in DOMAIN widgets[alloc.widgets[w]].properties

\* Every node of a tree with its position; `reach` tells whether all the
\* nodes enclosing it name registered widgets.
RECURSIVE TreeNodes(_, _, _, _)
TreeNodes(kind, node, pos, reach) ==
    {[pos |-> pos, node |-> node, reach |-> reach]} \cup
    UNION { TreeNodes(kind, node.children[i], pos \o <<i>>,
                      reach /\ Registered(NodeWidget(kind, node))) :
            i \in DOMAIN node.children }

StyleNodes(module) ==
    UNION { TreeNodes("style", module.styles[i], <<2, i>>, TRUE) :
            i \in DOMAIN module.styles }

LayoutNodes(module) ==
    UNION { TreeNodes("layout", module.layouts[i], <<3, i>>, TRUE) :
            i \in DOMAIN module.layouts }

\* Variable names some found import binds.
ImportedVariables(module, pre) ==
    { n \in DOMAIN alloc.variable :
        \E i \in DOMAIN module.imports :
            /\ module.imports[i] \in DOMAIN pre
            /\ alloc.variable[n] \in DOMAIN pre[module.imports[i]].variables }

\* Variable names bound when the i-th variable declaration is reached: the
\* imported ones and those of the earlier declarations that are literals or
\* refer to a name bound at their own place.
RECURSIVE BoundBefore(_, _, _)
BoundBefore(module, pre, i) ==
    IF i <= 1 THEN ImportedVariables(module, pre)
    ELSE LET b == BoundBefore(module, pre, i - 1)
             d == module.variables[i - 1]
         IN  IF d.value.t = "Variable" /\ d.value.name \notin b
             THEN b
             ELSE b \cup {d.name}

\* Variable names bound once all declarations are processed.
BoundAtEnd(module, pre) == BoundBefore(module, pre, Len(module.variables) + 1)

\* The problems of a module, each as the error that reports it.
MissingImports(module, pre) ==
    { ModuleNotFound(module.imports[i], <<0, i>>) :
        i \in {j \in DOMAIN module.imports : module.imports[j] \notin DOMAIN pre} }

UnresolvedDeclarations(module, pre) ==
    { VariableNotFound(module.variables[i].value.name, <<1, i, 0>>) :
        i \in {j \in DOMAIN module.variables :
                 /\ module.variables[j].value.t = "Variable"
                 /\ module.variables[j].value.name \notin BoundBefore(module, pre, j)} }

UnknownWidgetsIn(kind, nodes) ==
    { UnknownWidget(NodeWidget(kind, n.node), n.pos) :
        n \in {m \in nodes : ~Registered(NodeWidget(kind, m.node))} }

InvalidPropertiesIn(kind, nodes) ==
    UNION { { InvalidProperty(n.node.properties[k].name, NodeWidget(kind, n.node),
                              n.pos \o <<0, k>>) :
              k \in {j \in DOMAIN n.node.properties :
                       ~Defines(NodeWidget(kind, n.node), n.node.properties[j].name)} } :
            n \in {m \in nodes : Registered(NodeWidget(kind, m.node))} }

\* Unresolved references in property values; with `checked`, only in the
\* properties that the node's registered widget defines.
UnresolvedReferencesIn(kind, nodes, bound, checked) ==
    UNION { { VariableNotFound(n.node.properties[k].value.name, n.pos \o <<0, k, 0>>) :
              k \in {j \in DOMAIN n.node.properties :
                       /\ n.node.properties[j].value.t = "Variable"
                       /\ n.node.properties[j].value.name \notin bound
                       /\ checked =>
                            /\ Registered(NodeWidget(kind, n.node))
                            /\ Defines(NodeWidget(kind, n.node),
                                       n.node.properties[j].name)} } :
            n \in nodes }

Reachable(nodes) == {n \in nodes : n.reach}

\* Every problem that occurs anywhere in the module.
AllProblems(module, pre) ==
    LET b == BoundAtEnd(module, pre)
    IN  MissingImports(module, pre) \cup UnresolvedDeclarations(module, pre)
        \cup UnknownWidgetsIn("style", StyleNodes(module))
        \cup UnknownWidgetsIn("layout", LayoutNodes(module))
        \cup InvalidPropertiesIn("style", StyleNodes(module))
        \cup InvalidPropertiesIn("layout", LayoutNodes(module))
        \cup UnresolvedReferencesIn("style", StyleNodes(module), b, FALSE)
        \cup UnresolvedReferencesIn("layout", LayoutNodes(module), b, FALSE)

\* The problems outside every subtree of an unknown widget, a variable
\* reference counting only in a property its widget defines.
ExaminedProblems(module, pre) ==
    LET b  == BoundAtEnd(module, pre)
        sn == Reachable(StyleNodes(module))
        ln == Reachable(LayoutNodes(module))
    IN  MissingImports(module, pre) \cup UnresolvedDeclarations(module, pre)
        \cup UnknownWidgetsIn("style", sn) \cup UnknownWidgetsIn("layout", ln)
        \cup InvalidPropertiesIn("style", sn) \cup InvalidPropertiesIn("layout", ln)
        \cup UnresolvedReferencesIn("style", sn, b, TRUE)
        \cup UnresolvedReferencesIn("layout", ln, b, TRUE)

ErrorsOfKind(errors, kind) == {i \in DOMAIN errors : errors[i].kind = kind}

-----------------------------------------------------------------------------
(* Claims about error handling (SpecErrors).                               *)

\* C1: all-or-nothing commit.  If resolve_module collected at least one
\* error it returns Err with the collected errors and the module table is
\* exactly as before the call; it returns Ok exactly when the collected list
\* is empty, and then the table holds under the module's name a context that
\* binds every variable the module declares, all other entries unchanged.  A
\* module with a missing import never changes the table.
C1_AllOrNothingCommit ==
    Resolved =>
        /\ last.collected # <<>> =>
              /\ ~last.ok
              /\ last.errors = last.collected
              /\ contexts = last.pre
        /\ last.ok <=> last.collected = <<>>
        /\ last.ok =>
              /\ DOMAIN contexts = DOMAIN last.pre \cup {last.name}
              /\ \A n \in DOMAIN last.pre \ {last.name} : contexts[n] = last.pre[n]
              /\ \A i \in DOMAIN last.module.variables :
                    alloc.variable[last.module.variables[i].name]
                        \in DOMAIN contexts[last.name].variables
        /\ MissingImports(last.module, last.pre) # {} => contexts = last.pre

\* C1 witness: a failed resolution under a name that was committed before;
\* the earlier entry is still there.
C1_Witness ==
    /\ Resolved
    /\ ~last.ok
    /\ last.name \in DOMAIN last.pre
    /\ contexts = last.pre
    /\ last.module.variables # <<>>

\* The module of the last call has exactly one unknown widget and exactly
\* one invalid property, neither inside the other's subtree, and no other
\* problem.
C4_Case ==
    /\ Resolved
    /\ LET m  == last.module
           uw == UnknownWidgetsIn("style", StyleNodes(m))
                 \cup UnknownWidgetsIn("layout", LayoutNodes(m))
           ip == InvalidPropertiesIn("style", StyleNodes(m))
                 \cup InvalidPropertiesIn("layout", LayoutNodes(m))
       IN  /\ Cardinality(uw) = 1
           /\ Cardinality(ip) = 1
           /\ AllProblems(m, last.pre) = uw \cup ip
           /\ uw \cup ip \subseteq ExaminedProblems(m, last.pre)

\* C4: error collection.  A module with one unknown widget and one invalid
\* property in unrelated declarations returns Err with exactly two errors,
\* one UnknownWidget and one InvalidProperty; a returned error list is never
\* empty; and the failed call stores nothing: the table is as before, so a
\* module name that was not in it is not in it afterwards.
C4_ErrorCollection ==
    /\ (Resolved /\ ~last.ok) =>
          /\ last.errors # <<>>
          /\ contexts = last.pre
          /\ last.name \notin DOMAIN last.pre => last.name \notin DOMAIN contexts
    /\ C4_Case =>
          /\ ~last.ok
          /\ Len(last.errors) = 2
          /\ Cardinality(ErrorsOfKind(last.errors, "UnknownWidget")) = 1
          /\ Cardinality(ErrorsOfKind(last.errors, "InvalidProperty")) = 1
          /\ Range(last.errors) = AllProblems(last.module, last.pre)

\* C4 witness: such a module was resolved under a name not committed before.
C4_Witness ==
    /\ C4_Case
    /\ last.name \notin DOMAIN last.pre
    /\ last.name \notin DOMAIN contexts
    /\ Len(last.errors) = 2

\* C5 as stated: every problem that occurs anywhere in the module, at any
\* nesting depth, is in the error list of the call.
C5_MaximalErrorSet ==
    Resolved => AllProblems(last.module, last.pre) \subseteq Range(last.collected)

\* C5 amended: the error list holds, once each, exactly the missing imports,
\* the unresolved references of variable declarations and, for the style and
\* layout nodes all of whose enclosing nodes name registered widgets, the
\* unknown widgets, the invalid properties and the unresolved references in
\* properties that the node's widget defines.
C5_ExaminedErrorSet ==
    Resolved =>
        /\ Range(last.collected) = ExaminedProblems(last.module, last.pre)
        /\ Len(last.collected) = Cardinality(ExaminedProblems(last.module, last.pre))

\* C5 witness: a call that recorded errors of at least three kinds, one of
\* them below the top level, for a module that also has problems inside the
\* subtree of an unknown widget.
C5_Witness ==
    /\ Resolved
    /\ Cardinality({last.collected[i].kind : i \in DOMAIN last.collected}) >= 3
    /\ \E i \in DOMAIN last.collected : Len(last.collected[i].pos) >= 3
    /\ AllProblems(last.module, last.pre) # ExaminedProblems(last.module, last.pre)

-----------------------------------------------------------------------------
(* Claims about the cascade (SpecCascade).                                 *)

\* The widgets of the last Len(hierarchy) entries of the class path equal
\* the widgets of the hierarchy, position by position.
WidgetSuffix(path, hierarchy) ==
    /\ Len(path) >= Len(hierarchy)
    /\ \A d \in 1..Len(hierarchy) :
          path[Len(path) - Len(hierarchy) + d].widget = hierarchy[d].widget

ClassFree(widget) == [widget |-> widget, with_classes |-> {}, without_classes |-> {}]

\* The default style of a registered widget: one entry, every defined
\* property with its registered default.
ExpectedDefault(widget) ==
    [selector   |-> <<ClassFree(widget)>>,
     properties |-> [p \in DOMAIN widgets[widget].properties |->
                        widgets[widget].properties[p].default_value]]

\* The context styles a class path picks up, front to back.
ExpectedMatches(ctx, path) ==
    Reverse(SelectSeq(ctx.styles, LAMBDA s : WidgetSuffix(path, s.selector)))

\* The value a property node stands for in a context.
ExpectedValue(value, ctx) ==
    IF value.t = "Variable" THEN ctx.variables[alloc.variable[value.name]] ELSE value

\* The inline style of a layout node: class-free selectors along the class
\* path, and the node's properties (the last one of a name counts).
ExpectedInline(node, path, ctx) ==
    [selector   |-> [d \in 1..Len(path) |-> ClassFree(path[d].widget)],
     properties |-> [p \in {alloc.properties[node.properties[k].name] :
                              k \in DOMAIN node.properties} |->
                        LET ks == {k \in DOMAIN node.properties :
                                     alloc.properties[node.properties[k].name] = p}
                            k  == CHOOSE x \in ks : \A y \in ks : y <= x
                        IN  ExpectedValue(node.properties[k].value, ctx)]]

\* The style list of the element of a layout node, and of every element
\* below it, is composed as C2 says.
RECURSIVE CascadeComposed(_, _, _)
CascadeComposed(node, element, ctx) ==
    /\ element.styles =
          (IF node.properties # <<>>
           THEN <<ExpectedInline(node, element.classpath, ctx)>> ELSE <<>>)
          \o ExpectedMatches(ctx, element.classpath)
          \o <<ExpectedDefault(element.widget)>>
    /\ Len(element.children) = Len(node.children)
    /\ \A i \in DOMAIN node.children :
          CascadeComposed(node.children[i], element.children[i], ctx)

\* C2: cascade composition.  After a successful resolve_module the style
\* list of every element is, front to back: the inline style (present iff
\* the layout node declares properties), the styles of the module's context
\* whose selector hierarchy equals the widget suffix of the class path, in
\* reverse context order, and last the widget's default style.
C2_CascadeComposition ==
    (Resolved /\ last.ok) =>
        /\ Len(last.elements) = Len(last.module.layouts)
        /\ \A i \in DOMAIN last.module.layouts :
              CascadeComposed(last.module.layouts[i], last.elements[i],
                              contexts[last.name])

\* C2 witness: a resolved child element with an inline style in front of at
\* least two context styles, while the context holds a style it leaves out.
C2_Witness ==
    /\ Resolved
    /\ last.ok
    /\ \E i \in DOMAIN last.elements : \E j \in DOMAIN last.elements[i].children :
          LET e == last.elements[i].children[j]
          IN  /\ last.module.layouts[i].children[j].properties # <<>>
              /\ Len(e.styles) >= 4
              /\ Len(contexts[last.name].styles) > Len(e.styles) - 2

\* Every element of a forest.
RECURSIVE ElementsOf(_)
ElementsOf(elements) ==
    UNION { {elements[i]} \cup ElementsOf(elements[i].children) :
            i \in DOMAIN elements }

\* The selector hierarchies of the styles merged from the found imports, in
\* the order they are added to the module's context.
RECURSIVE ImportedSelectors(_, _, _)
ImportedSelectors(imports, i, pre) ==
    IF i > Len(imports) THEN <<>>
    ELSE (IF imports[i] \in DOMAIN pre
          THEN [k \in 1..Len(pre[imports[i]].styles) |->
                    pre[imports[i]].styles[k].selector]
          ELSE <<>>)
         \o ImportedSelectors(imports, i + 1, pre)

\* The selector hierarchies of the module's own rules, in the order their
\* resolved styles are added to the module's context.
RECURSIVE DeclaredSelectors(_, _)
DeclaredSelectors(styles, i) ==
    IF i > Len(styles) THEN <<>>
    ELSE LET r == FromStyleNode(styles[i], <<2, i>>, NewContext, alloc, <<>>).styles
         IN  [k \in 1..Len(r) |-> r[k].selector] \o DeclaredSelectors(styles, i + 1)

ResolutionOrder(module, pre) ==
    ImportedSelectors(module.imports, 1, pre) \o DeclaredSelectors(module.styles, 1)

\* The place of a context style in an element's list (the default style,
\* last in the list, is not a context style).
PlaceOf(element, selector) ==
    LET is == {i \in 1..(Len(element.styles) - 1) :
                 element.styles[i].selector = selector}
    IN  CHOOSE i \in is : \A j \in is : j <= i

\* C3: declaration-order cascade invariant.  Of two rules with distinct
\* selector hierarchies that both match an element, the one resolved later
\* sits strictly nearer the front of the element's style list, also when a
\* selector is declared more than once and when styles come from imports.
C3_DeclarationOrder ==
    (Resolved /\ last.ok) =>
        LET order == ResolutionOrder(last.module, last.pre)
        IN  \A e \in ElementsOf(last.elements) :
            \A i \in DOMAIN order : \A j \in DOMAIN order :
                (/\ i < j
                 /\ order[i] # order[j]
                 /\ WidgetSuffix(e.classpath, order[i])
                 /\ WidgetSuffix(e.classpath, order[j]))
                => PlaceOf(e, order[j]) < PlaceOf(e, order[i])

-----------------------------------------------------------------------------
(* Claims about variables and imports (SpecVariables, SpecCascade).        *)

\* The value an import gives a variable name: the last found import that
\* binds it decides.
ImportedValue(module, pre, n) ==
    LET is == {i \in DOMAIN module.imports :
                 /\ module.imports[i] \in DOMAIN pre
                 /\ alloc.variable[n] \in DOMAIN pre[module.imports[i]].variables}
        i  == CHOOSE x \in is : \A y \in is : y <= x
    IN  pre[module.imports[i]].variables[alloc.variable[n]]

\* The value of the bound name n when the i-th declaration is reached.
RECURSIVE ValueBefore(_, _, _, _)
ValueBefore(module, pre, n, i) ==
    IF i <= 1 THEN ImportedValue(module, pre, n)
    ELSE LET d == module.variables[i - 1]
         IN  IF d.name # n THEN ValueBefore(module, pre, n, i - 1)
             ELSE IF d.value.t # "Variable" THEN d.value
             ELSE IF d.value.name \in BoundBefore(module, pre, i - 1)
                  THEN ValueBefore(module, pre, d.value.name, i - 1)
                  ELSE ValueBefore(module, pre, n, i - 1)

\* C6: variable resolution ordering.  A declaration whose value refers to a
\* name bound by an import or by an earlier declaration of the module raises
\* no error and takes the value the name has at that place; a reference to a
\* name bound only later, or never, is reported as VariableNotFound, the
\* declaration binds nothing (later references to it fail in turn) and the
\* module is not committed.
C6_VariableOrdering ==
    Resolved =>
        LET m == last.module
        IN  /\ \A i \in DOMAIN m.variables :
                  m.variables[i].value.t = "Variable" =>
                      LET e == VariableNotFound(m.variables[i].value.name, <<1, i, 0>>)
                      IN  IF m.variables[i].value.name \in BoundBefore(m, last.pre, i)
                          THEN e \notin Range(last.collected)
                          ELSE /\ e \in Range(last.collected)
                               /\ ~last.ok
                               /\ contexts = last.pre
            /\ last.ok =>
                  /\ DOMAIN contexts[last.name].variables =
                        {alloc.variable[n] : n \in BoundAtEnd(m, last.pre)}
                  /\ \A n \in BoundAtEnd(m, last.pre) :
                        contexts[last.name].variables[alloc.variable[n]] =
                            ValueBefore(m, last.pre, n, Len(m.variables) + 1)

\* C6 witness: a committed module whose first declaration refers to a
\* variable inherited through an import and which then declares that
\* variable again with another value; the two now differ.
C6_Witness ==
    /\ Resolved
    /\ last.ok
    /\ Len(last.module.variables) >= 2
    /\ last.module.variables[1].value.t = "Variable"
    /\ last.module.variables[1].value.name = last.module.variables[2].name
    /\ contexts[last.name].variables[alloc.variable[last.module.variables[1].name]]
         # contexts[last.name].variables[alloc.variable[last.module.variables[2].name]]

\* The selector a style node declares.
DeclaredSelector(node) ==
    [widget          |-> alloc.widgets[node.selector.widget],
     with_classes    |-> {alloc.classes[node.selector.parts[k].class] :
                            k \in {j \in DOMAIN node.selector.parts :
                                     node.selector.parts[j].part = "WithClass"}},
     without_classes |-> {alloc.classes[node.selector.parts[k].class] :
                            k \in {j \in DOMAIN node.selector.parts :
                                     node.selector.parts[j].part = "WithoutClass"}}]

\* Every level of a style tree with the chain of selectors leading to it.
RECURSIVE StyleLevels(_, _)
StyleLevels(node, chain) ==
    LET here == Append(chain, DeclaredSelector(node))
    IN  {[selector |-> here, node |-> node]} \cup
        UNION { StyleLevels(node.children[i], here) : i \in DOMAIN node.children }

ModuleLevels(module) ==
    UNION { StyleLevels(module.styles[i], <<>>) : i \in DOMAIN module.styles }

\* The values the module's own rules give property p under a selector
\* hierarchy, read in the module's context.
DeclaredValues(module, selector, p, ctx) ==
    UNION { { ExpectedValue(l.node.properties[k].value, ctx) :
              k \in {j \in DOMAIN l.node.properties :
                       alloc.properties[l.node.properties[j].name] = p} } :
            l \in {x \in ModuleLevels(module) : x.selector = selector} }

\* The last call resolved a module importing exactly the committed module A
\* under another name, and succeeded.
C7_Case ==
    /\ Resolved
    /\ last.ok
    /\ last.module.imports = <<"A">>
    /\ "A" \in DOMAIN last.pre
    /\ last.name # "A"

\* C7: import merge.  B starts from A's variables and styles: a variable B
\* does not declare keeps A's value and one it declares has B's value; A's
\* styles stay at their list positions with their selectors, a property
\* keeps A's value unless a rule of B with the identical selector hierarchy
\* sets it, and then B's value stands; properties and styles that only B
\* declares are added; A's committed context is unchanged.
C7_ImportMerge ==
    C7_Case =>
        LET m == last.module
            a == last.pre["A"]
            b == contexts[last.name]
        IN  /\ contexts["A"] = a
            /\ DOMAIN a.variables \subseteq DOMAIN b.variables
            /\ \A n \in BoundAtEnd(m, last.pre) :
                  b.variables[alloc.variable[n]] =
                      IF \E i \in DOMAIN m.variables : m.variables[i].name = n
                      THEN ValueBefore(m, last.pre, n, Len(m.variables) + 1)
                      ELSE a.variables[alloc.variable[n]]
            /\ Len(b.styles) >= Len(a.styles)
            /\ \A k \in DOMAIN a.styles :
                  /\ b.styles[k].selector = a.styles[k].selector
                  /\ DOMAIN a.styles[k].properties \subseteq DOMAIN b.styles[k].properties
                  /\ \A p \in DOMAIN b.styles[k].properties :
                        LET dv == DeclaredValues(m, a.styles[k].selector, p, b)
                        IN  IF dv = {}
                            THEN /\ p \in DOMAIN a.styles[k].properties
                                 /\ b.styles[k].properties[p] = a.styles[k].properties[p]
                            ELSE b.styles[k].properties[p] \in dv
            /\ \A k \in DOMAIN b.styles :
                  k > Len(a.styles) =>
                      /\ \A j \in DOMAIN a.styles : a.styles[j].selector # b.styles[k].selector
                      /\ \E l \in ModuleLevels(m) : l.selector = b.styles[k].selector

\* C7 witness: B declares a variable of A again with another value; one
\* inherited style still holds the value resolved from A's variable, and
\* another inherited style was changed by a rule of B.
C7_Witness ==
    /\ C7_Case
    /\ LET a == last.pre["A"]
           b == contexts[last.name]
       IN  /\ \E v \in DOMAIN a.variables :
                 /\ a.variables[v] # b.variables[v]
                 /\ \E k \in DOMAIN a.styles : \E p \in DOMAIN a.styles[k].properties :
                       /\ a.styles[k].properties[p] = a.variables[v]
                       /\ b.styles[k].properties[p] = a.variables[v]
           /\ \E k \in DOMAIN a.styles : a.styles[k] # b.styles[k]

-----------------------------------------------------------------------------
(* The matcher on its own (SpecMatch): a class path and a selector         *)
(* hierarchy are drawn, then matches and partial_matches are applied.      *)

MaxPathDepth == 2
MaxSelectorDepth == 2

WidgetIds == {1, 2}
ClassIds == {1, 2}

SeqsUpTo(S, n) == UNION {[1..k -> S] : k \in 0..n}

WidgetClassesSet == [widget : WidgetIds, classes : SUBSET ClassIds]

SelectorSet ==
    [widget : WidgetIds, with_classes : {{}, {1}, {2}}, without_classes : {{}, {1}}]

ClassPaths == SeqsUpTo(WidgetClassesSet, MaxPathDepth) \ {<<>>}

Hierarchies == SeqsUpTo(SelectorSet, MaxSelectorDepth)

InitMatch ==
    /\ alloc = NewAllocator
    /\ widgets = EmptyMap
    /\ contexts = EmptyMap
    /\ calls = 0
    /\ last = NoCall
    /\ cp \in ClassPaths
    /\ sh \in Hierarchies
    /\ lock = "none"
    /\ threads = Idle
    /\ tokenizer = NoTokenizer
    /\ parser = NoParser

\* cp.matches(&sh) and cp.partial_matches(&sh)
Match ==
    /\ calls = 0
    /\ calls' = 1
    /\ last' = [op |-> "match", matches |-> Matches(cp, sh),
                partial |-> PartialMatches(cp, sh)]
    /\ UNCHANGED <<alloc, widgets, contexts, cp, sh, lock, threads,
                 tokenizer, parser>>

NextMatch == Match

SpecMatch == InitMatch /\ [][NextMatch]_vars

\* At every compared position the selector's with-classes are all in the
\* entry's class set and none of its without-classes is.
ClassesAgree(path, hierarchy) ==
    \A d \in 1..Len(hierarchy) :
        LET wc == path[Len(path) - Len(hierarchy) + d]
        IN  /\ hierarchy[d].with_classes \subseteq wc.classes
            /\ hierarchy[d].without_classes \cap wc.classes = {}

\* The class path [div(+outer-menu), button()] and the selector hierarchy
\* [div, button +hover], with div = 2, button = 1, outer-menu = 1, hover = 2.
MenuPath == <<[widget |-> 2, classes |-> {1}], [widget |-> 1, classes |-> {}]>>
HoverHierarchy == <<SelectorBuild(2, {}, {}), SelectorBuild(1, {2}, {})>>

\* C8: partial versus exact matching.  partial_matches holds exactly when
\* the class path is at least as deep as the hierarchy and the widgets of
\* its last entries equal the hierarchy's widgets position by position;
\* matches holds exactly when, in addition, the classes agree at every
\* compared position.  [div(+outer-menu), button()] partially matches
\* [div, button +hover] and does not exactly match it.
C8_PartialVersusExact ==
    last.op = "match" =>
        /\ last.partial = WidgetSuffix(cp, sh)
        /\ last.matches = (WidgetSuffix(cp, sh) /\ ClassesAgree(cp, sh))
        /\ (cp = MenuPath /\ sh = HoverHierarchy) => (last.partial /\ ~last.matches)

\* C8 witness: both matchers were applied to the class path and hierarchy
\* of the example; a two-deep path against a two-deep hierarchy.
C8_Witness ==
    /\ last.op = "match"
    /\ cp = MenuPath
    /\ sh = HoverHierarchy
    /\ last.partial
    /\ ~last.matches

-----------------------------------------------------------------------------
(* The interner called from one thread (SpecAlloc).                        *)

MaxInterns == 4

InternNames == {"x", "y"}

InitAlloc ==
    /\ alloc = NewAllocator
    /\ widgets = EmptyMap
    /\ contexts = EmptyMap
    /\ calls = 0
    /\ last = NoCall
    /\ cp = <<>>
    /\ sh = <<>>
    /\ lock = "none"
    /\ threads = Idle
    /\ tokenizer = NoTokenizer
    /\ parser = NoParser

\* NekoContextAllocator::get_or_create_<kind>(name)
GetOrCreateCall(kind, name) ==
    /\ calls < MaxInterns
    /\ LET g == GetOrCreate(alloc, kind, name)
       IN  /\ alloc' = g.al
           /\ last' = [op |-> "get_or_create", kind |-> kind, name |-> name,
                       pre |-> alloc, some |-> TRUE, id |-> g.id]
    /\ calls' = calls + 1
    /\ UNCHANGED <<widgets, contexts, cp, sh, lock, threads,
                 tokenizer, parser>>

\* NekoContextAllocator::get_<kind>(name)
GetCall(kind, name) ==
    /\ calls < MaxInterns
    /\ LET g == Get(alloc, kind, name)
       IN  last' = [op |-> "get", kind |-> kind, name |-> name,
                    pre |-> alloc, some |-> g.some, id |-> g.id]
    /\ calls' = calls + 1
    /\ UNCHANGED <<alloc, widgets, contexts, cp, sh, lock, threads,
                 tokenizer, parser>>

NextAlloc ==
    \E kind \in Kinds, name \in InternNames :
        GetOrCreateCall(kind, name) \/ GetCall(kind, name)

SpecAlloc == InitAlloc /\ [][NextAlloc]_vars

\* Within every kind, two different names never share an id.
Injective(al) ==
    \A kind \in Kinds : \A n1 \in DOMAIN al[kind] : \A n2 \in DOMAIN al[kind] :
        al[kind][n1] = al[kind][n2] => n1 = n2

\* Every binding of `before` is still there, unchanged, in `after`.
Extends(after, before) ==
    \A kind \in Kinds : \A n \in DOMAIN before[kind] :
        n \in DOMAIN after[kind] /\ after[kind][n] = before[kind][n]

\* C9: interning stability.  After any sequence of calls every table is
\* injective; a call never changes or removes a binding; get_or_create
\* returns the id its name is bound to from then on, the one it had if it
\* was bound before, and binds nothing else; get returns Some(id) exactly
\* for a name bound in that kind and binds nothing, so a name created in one
\* kind is not found in another.
C9_InterningStability ==
    /\ Injective(alloc)
    /\ last.op \in {"get_or_create", "get"} =>
          /\ Extends(alloc, last.pre)
          /\ \A kind \in Kinds \ {last.kind} : alloc[kind] = last.pre[kind]
          /\ DOMAIN alloc[last.kind] \subseteq DOMAIN last.pre[last.kind] \cup {last.name}
    /\ last.op = "get_or_create" =>
          /\ last.name \in DOMAIN alloc[last.kind]
          /\ last.id = alloc[last.kind][last.name]
          /\ last.name \in DOMAIN last.pre[last.kind] => alloc = last.pre
          /\ last.name \notin DOMAIN last.pre[last.kind] =>
                \A n \in DOMAIN last.pre[last.kind] : last.pre[last.kind][n] # last.id
    /\ last.op = "get" =>
          /\ alloc = last.pre
          /\ last.some <=> last.name \in DOMAIN last.pre[last.kind]
          /\ last.some => last.id = last.pre[last.kind][last.name]

\* C9 witness: a name was looked up in a kind in which it is not bound while
\* it is bound in another kind, after two names of one kind were created.
C9_Witness ==
    /\ last.op = "get"
    /\ ~last.some
    /\ \E kind \in Kinds : last.name \in DOMAIN alloc[kind]
    /\ \E kind \in Kinds : Cardinality(DOMAIN alloc[kind]) >= 2

-----------------------------------------------------------------------------
(* The interner called from several threads (SpecThreads).  A call locks   *)
(* ALLOCATOR_MUTEX, looks the name up, inserts it when get_or_create did   *)
(* not find it, and releases the mutex when it returns.                    *)

MaxThreadCalls == 2

Threads == {"t1", "t2"}

ThreadKinds == {"widgets", "classes"}

NewThread ==
    [pc |-> "idle", op |-> "", kind |-> "", name |-> "", some |-> FALSE,
     id |-> 0, done |-> 0]

InitThreads ==
    /\ alloc = NewAllocator
    /\ widgets = EmptyMap
    /\ contexts = EmptyMap
    /\ calls = 0
    /\ last = NoCall
    /\ cp = <<>>
    /\ sh = <<>>
    /\ lock = "none"
    /\ threads = [t \in Threads |-> NewThread]
    /\ tokenizer = NoTokenizer
    /\ parser = NoParser

\* A thread enters get_or_create_<kind>(name) or get_<kind>(name).
Call(t, op, kind, name) ==
    /\ threads[t].pc \in {"idle", "returned"}
    /\ threads[t].done < MaxThreadCalls
    /\ threads' = [threads EXCEPT ![t] =
                      [@ EXCEPT !.pc = "lock", !.op = op, !.kind = kind,
                                !.name = name, !.some = FALSE, !.id = 0]]
    /\ UNCHANGED <<alloc, widgets, contexts, calls, last, cp, sh, lock,
                 tokenizer, parser>>

\* ALLOCATOR_MUTEX.lock().unwrap()
Lock(t) ==
    /\ threads[t].pc = "lock"
    /\ LockFree(lock)
    /\ lock' = t
    /\ threads' = [threads EXCEPT ![t].pc = "lookup"]
    /\ UNCHANGED <<alloc, widgets, contexts, calls, last, cp, sh,
                 tokenizer, parser>>

\* allocator.<kind>.get(name)
Lookup(t) ==
    /\ threads[t].pc = "lookup"
    /\ LET g == Get(alloc, threads[t].kind, threads[t].name)
       IN  threads' = [threads EXCEPT ![t] =
                          IF g.some
                          THEN [@ EXCEPT !.pc = "unlock", !.some = TRUE, !.id = g.id]
                          ELSE IF threads[t].op = "get"
                               THEN [@ EXCEPT !.pc = "unlock"]
                               ELSE [@ EXCEPT !.pc = "insert"]]
    /\ UNCHANGED <<alloc, widgets, contexts, calls, last, cp, sh, lock,
                 tokenizer, parser>>

\* allocator.incrementor += 1; allocator.<kind>.insert(name, id)
Insert(t) ==
    /\ threads[t].pc = "insert"
    /\ LET a2 == AllocInsert(alloc, threads[t].kind, threads[t].name)
       IN  /\ alloc' = a2
           /\ threads' = [threads EXCEPT ![t] =
                             [@ EXCEPT !.pc = "unlock", !.some = TRUE,
                                       !.id = a2[threads[t].kind][threads[t].name]]]
    /\ UNCHANGED <<widgets, contexts, calls, last, cp, sh, lock,
                 tokenizer, parser>>

\* The guard is dropped as the function returns.
Unlock(t) ==
    /\ threads[t].pc = "unlock"
    /\ lock' = "none"
    /\ threads' = [threads EXCEPT ![t] =
                      [@ EXCEPT !.pc = "returned", !.done = @ + 1]]
    /\ UNCHANGED <<alloc, widgets, contexts, calls, last, cp, sh,
                 tokenizer, parser>>

NextThreads ==
    \E t \in Threads :
        \/ \E op \in {"get_or_create", "get"}, kind \in ThreadKinds,
              name \in InternNames : Call(t, op, kind, name)
        \/ Lock(t)
        \/ Lookup(t)
        \/ Insert(t)
        \/ Unlock(t)

SpecThreads == InitThreads /\ [][NextThreads]_vars

\* C10: the interner under concurrency.  In every interleaving the lookup
\* and the insertion of a call are one atomic step with respect to the
\* other threads: a thread about to insert a name finds it still unbound;
\* every table stays injective; a call that returned an id returned the id
\* its name is bound to, so two threads interning the same name hold the
\* same id and two threads interning different names of a kind hold
\* different ids.
C10_ConcurrentInterning ==
    /\ Injective(alloc)
    /\ \A t \in DOMAIN threads :
          /\ threads[t].pc = "insert" =>
                threads[t].name \notin DOMAIN alloc[threads[t].kind]
          /\ (threads[t].pc \in {"unlock", "returned"} /\ threads[t].some) =>
                /\ threads[t].name \in DOMAIN alloc[threads[t].kind]
                /\ threads[t].id = alloc[threads[t].kind][threads[t].name]
    /\ \A t \in DOMAIN threads : \A u \in DOMAIN threads :
          (/\ threads[t].pc = "returned" /\ threads[t].op = "get_or_create"
           /\ threads[u].pc = "returned" /\ threads[u].op = "get_or_create"
           /\ threads[t].kind = threads[u].kind)
          => (threads[t].id = threads[u].id <=> threads[t].name = threads[u].name)

\* C10 witness: both threads asked for the same never-seen name at the same
\* time (one waited for the mutex while the other was inside) and both
\* returned the same id.
C10_Witness ==
    /\ DOMAIN threads = Threads
    /\ threads["t1"].pc = "returned" /\ threads["t1"].op = "get_or_create"
    /\ threads["t2"].pc = "returned" /\ threads["t2"].op = "get_or_create"
    /\ threads["t1"].done = 1 /\ threads["t2"].done = 1
    /\ threads["t1"].kind = threads["t2"].kind
    /\ threads["t1"].name = threads["t2"].name
    /\ threads["t1"].id = threads["t2"].id
    /\ alloc.incrementor = 1

-----------------------------------------------------------------------------
(* The module context on its own (SpecContext): two contexts, both empty   *)
(* at first, take add_style and append calls.                              *)

MaxContextCalls == 3

ContextNames == {"c1", "c2"}

\* The selector hierarchies [button], [button +hover] and [div, button].
ContextSelectors ==
    { <<SelectorNew(1)>>, <<SelectorBuild(1, {1}, {})>>,
      <<SelectorNew(2), SelectorNew(1)>> }

\* Property maps over width (3) and color (4).
ContextProperties ==
    { EmptyMap, Put(EmptyMap, 3, Px("1")), Put(EmptyMap, 3, Px("2")),
      Put(EmptyMap, 4, Color("red")),
      Put(Put(EmptyMap, 3, Px("2")), 4, Color("green")) }

ContextStyles == [selector : ContextSelectors, properties : ContextProperties]

InitContext ==
    /\ alloc = HostAlloc
    /\ widgets = EmptyMap
    /\ contexts = [n \in ContextNames |-> NewContext]
    /\ calls = 0
    /\ last = NoCall
    /\ cp = <<>>
    /\ sh = <<>>
    /\ lock = "none"
    /\ threads = Idle
    /\ tokenizer = NoTokenizer
    /\ parser = NoParser

\* contexts[n].add_style(style)
AddStyleCall(n, style) ==
    /\ calls < MaxContextCalls
    /\ contexts' = [contexts EXCEPT ![n] = AddStyle(@, style)]
    /\ last' = [op |-> "add_style", name |-> n, style |-> style, pre |-> contexts]
    /\ calls' = calls + 1
    /\ UNCHANGED <<alloc, widgets, cp, sh, lock, threads,
                 tokenizer, parser>>

\* contexts[n].append(contexts[o].clone())
AppendCall(n, o) ==
    /\ calls < MaxContextCalls
    /\ n # o
    /\ contexts' = [contexts EXCEPT ![n] = ContextAppend(@, contexts[o])]
    /\ last' = [op |-> "append", name |-> n, other |-> o, pre |-> contexts]
    /\ calls' = calls + 1
    /\ UNCHANGED <<alloc, widgets, cp, sh, lock, threads,
                 tokenizer, parser>>

NextContext ==
    \/ \E n \in ContextNames, style \in ContextStyles : AddStyleCall(n, style)
    \/ \E n \in ContextNames, o \in ContextNames : AppendCall(n, o)

SpecContext == InitContext /\ [][NextContext]_vars

\* The properties of `existing` after those of `style` are set on it.
Overwritten(existing, style) ==
    [p \in (DOMAIN existing) \cup (DOMAIN style) |->
        IF p \in DOMAIN style THEN style[p] ELSE existing[p]]

\* C11: style merge rule.  add_style(s) on a context holding an entry with
\* s's selector hierarchy leaves the length of the list and every entry's
\* selector and position as they were, changes no other entry, and gives
\* that entry s's values for s's property names and its old values for the
\* others; with no such entry the list is the old one with s appended.  The
\* variables and the other context are untouched.
C11_StyleMergeRule ==
    last.op = "add_style" =>
        LET pre  == last.pre[last.name].styles
            post == contexts[last.name].styles
            s    == last.style
        IN  /\ contexts[last.name].variables = last.pre[last.name].variables
            /\ \A o \in ContextNames \ {last.name} : contexts[o] = last.pre[o]
            /\ IF \E i \in DOMAIN pre : pre[i].selector = s.selector
               THEN /\ Len(post) = Len(pre)
                    /\ \A i \in DOMAIN pre :
                          /\ post[i].selector = pre[i].selector
                          /\ post[i].properties =
                                IF pre[i].selector = s.selector
                                THEN Overwritten(pre[i].properties, s.properties)
                                ELSE pre[i].properties
               ELSE post = Append(pre, s)

\* C11 witness: add_style merged into the first of two entries, replacing
\* the value of one property and keeping another property of the entry.
C11_Witness ==
    /\ last.op = "add_style"
    /\ LET pre  == last.pre[last.name].styles
           post == contexts[last.name].styles
           s    == last.style
       IN  /\ Len(pre) = 2
           /\ pre[1].selector = s.selector
           /\ \E p \in DOMAIN s.properties :
                 /\ p \in DOMAIN pre[1].properties
                 /\ pre[1].properties[p] # s.properties[p]
                 /\ post[1].properties[p] = s.properties[p]
           /\ \E p \in DOMAIN pre[1].properties :
                 /\ p \notin DOMAIN s.properties
                 /\ post[1].properties[p] = pre[1].properties[p]

\* No two entries of a style list have equal selector hierarchies.
Deduplicated(styles) ==
    \A i \in DOMAIN styles : \A j \in DOMAIN styles :
        styles[i].selector = styles[j].selector => i = j

\* C12: deduplicated style list.  Every context reached from the empty
\* context by add_style and append calls holds each selector hierarchy at
\* most once.
C12_DeduplicatedStyles ==
    \A n \in DOMAIN contexts : Deduplicated(contexts[n].styles)

\* C12 witness: append merged a context into one that already held one of
\* its selector hierarchies; the receiving list did not grow.
C12_Witness ==
    /\ last.op = "append"
    /\ last.pre[last.other].styles # <<>>
    /\ last.pre[last.name].styles # <<>>
    /\ \E i \in DOMAIN last.pre[last.name].styles :
          last.pre[last.name].styles[i].selector = last.pre[last.other].styles[1].selector
    /\ Len(contexts[last.name].styles) = Len(last.pre[last.name].styles)
    /\ contexts[last.name] # last.pre[last.name]

-----------------------------------------------------------------------------
(* Style expansion on its own (SpecExpand): style nodes of up to three     *)
(* levels are expanded by from_style_node and their styles added to one    *)
(* context, as the style loop of resolve_module does.                      *)

MaxExpandCalls == 2

\* Innermost levels: with button { width: 1px; }, with button +hover
\* !pressed { color: $a; }, with button { } and with blob { width: 1px; }.
StyleLeaves ==
    { StyleNode("button", <<>>, <<PropertyNode("width", Px("1"))>>, <<>>),
      StyleNode("button", <<WithClass("hover"), WithoutClass("pressed")>>,
                <<PropertyNode("color", VarRef("a"))>>, <<>>),
      StyleNode("button", <<>>, <<>>, <<>>),
      StyleNode("blob", <<>>, <<PropertyNode("width", Px("1"))>>, <<>>) }

\* The property lists of an enclosing level: none, one valid property, one
\* property the widget does not define.
StyleOuterProperties ==
    { <<>>, <<PropertyNode("width", Px("2"))>>, <<PropertyNode("bad", Px("1"))>> }

\* Levels enclosing one or two of the given children.
StyleAround(children, most) ==
    { StyleNode(w, <<>>, ps, cs) :
        w \in {"div", "blob"}, ps \in StyleOuterProperties,
        cs \in UNION {[1..k -> children] : k \in 1..most} }

StyleTrees ==
    StyleLeaves \cup StyleAround(StyleLeaves, 2)
    \cup { StyleNode("div", <<WithClass("menu")>>, ps, <<c>>) :
             ps \in {<<>>, <<PropertyNode("width", Px("3"))>>},
             c \in StyleAround(StyleLeaves, 1) }

InitExpand ==
    /\ alloc = HostAlloc
    /\ widgets = HostWidgets
    /\ contexts = [n \in {"m"} |-> NewContext]
    /\ calls = 0
    /\ last = NoCall
    /\ cp = <<>>
    /\ sh = <<>>
    /\ lock = "none"
    /\ threads = Idle
    /\ tokenizer = NoTokenizer
    /\ parser = NoParser

\* NekoStyle::from_style_node(node, &ctx, &vm, &mut errors), then
\* ctx.add_style for each style it returned.
Expand(node) ==
    /\ calls < MaxExpandCalls
    /\ \E r \in {FromStyleNode(node, <<2, 1>>, contexts["m"], alloc, <<>>)} :
          /\ alloc' = r.al
          /\ contexts' = [contexts EXCEPT !["m"] = AddStyles(@, r.styles, 1)]
          /\ last' = [op |-> "from_style_node", node |-> node,
                      styles |-> r.styles, errors |-> r.errors,
                      pre |-> contexts["m"]]
    /\ calls' = calls + 1
    /\ UNCHANGED <<widgets, cp, sh, lock, threads,
                 tokenizer, parser>>

NextExpand == \E node \in StyleTrees : Expand(node)

SpecExpand == InitExpand /\ [][NextExpand]_vars

\* The node at a position below `node` (a sequence of child indices).
RECURSIVE NodeAt(_, _)
NodeAt(node, path) ==
    IF path = <<>> THEN node
    ELSE NodeAt(node.children[Head(path)], Tail(path))

\* The positions of all levels of a tree.
RECURSIVE PathsOf(_)
PathsOf(node) ==
    {<<>>} \cup UNION { { <<i>> \o p : p \in PathsOf(node.children[i]) } :
                        i \in DOMAIN node.children }

\* p is a proper prefix of q: the level at p encloses the level at q.
Encloses(p, q) == Len(p) < Len(q) /\ SubSeq(q, 1, Len(p)) = p

\* A level is expanded when it and all levels enclosing it name registered
\* widgets.
Expanded(node, path) ==
    \A k \in 0..Len(path) : Registered(NodeAt(node, SubSeq(path, 1, k)).selector.widget)

\* The levels that emit a style: expanded and with a property of their own.
Emitting(node) ==
    { p \in PathsOf(node) : Expanded(node, p) /\ NodeAt(node, p).properties # <<>> }

\* The chain of selectors from the top level down to the level at `path`.
ChainOf(node, path) ==
    [k \in 1..(Len(path) + 1) |->
        DeclaredSelector(NodeAt(node, SubSeq(path, 1, k - 1)))]

\* p comes before q when the children are expanded before their parent and
\* the children in declaration order.
ChildrenFirst(p, q) ==
    \/ Encloses(q, p)
    \/ \E k \in 1..Len(p) :
          /\ k <= Len(q)
          /\ SubSeq(p, 1, k - 1) = SubSeq(q, 1, k - 1)
          /\ p[k] < q[k]

\* The place of a selector hierarchy in a style list (0: not in it).
IndexOf(styles, selector) ==
    IF \E i \in DOMAIN styles : styles[i].selector = selector
    THEN CHOOSE i \in DOMAIN styles : styles[i].selector = selector
    ELSE 0

\* C13 as stated: a parent rule precedes every rule nested inside it in the
\* list from_style_node returns.
C13_ParentFirst ==
    last.op = "from_style_node" =>
        \A p \in Emitting(last.node) : \A q \in Emitting(last.node) :
            Encloses(p, q) =>
                \E i \in DOMAIN last.styles : \E j \in DOMAIN last.styles :
                    /\ i < j
                    /\ last.styles[i].selector = ChainOf(last.node, p)
                    /\ last.styles[j].selector = ChainOf(last.node, q)

\* C13, amended: style expansion order.  The expansion is depth-first with
\* the styles of a level's nested children emitted, in declaration order,
\* before the level's own style: the style of each emitting level stands in
\* the returned list at the place that order gives it, so every nested rule
\* precedes the rule enclosing it; and in the context's list a nested rule
\* whose selector hierarchy is new precedes an enclosing rule whose selector
\* hierarchy is new and emitted once.
C13_ChildrenFirst ==
    last.op = "from_style_node" =>
        LET em == Emitting(last.node)
        IN  /\ \A p \in em :
                  LET place == 1 + Cardinality({q \in em : ChildrenFirst(q, p)})
                  IN  /\ place <= Len(last.styles)
                      /\ last.styles[place].selector = ChainOf(last.node, p)
            /\ \A p \in em : \A q \in em :
                  (/\ Encloses(p, q)
                   /\ IndexOf(last.pre.styles, ChainOf(last.node, p)) = 0
                   /\ IndexOf(last.pre.styles, ChainOf(last.node, q)) = 0
                   /\ \A x \in em : ChainOf(last.node, x) = ChainOf(last.node, p) => x = p)
                  => IndexOf(contexts["m"].styles, ChainOf(last.node, q))
                       < IndexOf(contexts["m"].styles, ChainOf(last.node, p))

\* C13 witness: a tree of three levels, each with a property of its own,
\* was expanded: the innermost rule came first, the outermost last.
C13_Witness ==
    /\ last.op = "from_style_node"
    /\ Len(last.styles) = 3
    /\ Len(last.styles[1].selector) = 3
    /\ Len(last.styles[2].selector) = 2
    /\ Len(last.styles[3].selector) = 1

\* The levels of a tree that declare at least one property.
Declaring(node) == { p \in PathsOf(node) : NodeAt(node, p).properties # <<>> }

\* C14 as stated: from_style_node emits exactly one style for each level
\* that declares at least one property, whatever widgets the tree names.
C14_EveryDeclaringLevel ==
    last.op = "from_style_node" =>
        Len(last.styles) = Cardinality(Declaring(last.node))

\* C14, amended: style expansion set.  from_style_node emits exactly one
\* style for each level that declares at least one property and is expanded
\* (it and every level enclosing it name registered widgets), and none for
\* any other level; the selector hierarchy of the style of a level is the
\* chain of selectors from the top level down to it, root first, each with
\* the widget, with-classes and without-classes its level declares.
C14_ExpandedLevels ==
    last.op = "from_style_node" =>
        LET em == Emitting(last.node)
        IN  /\ Len(last.styles) = Cardinality(em)
            /\ \A p \in em :
                  Cardinality({i \in DOMAIN last.styles :
                                 last.styles[i].selector = ChainOf(last.node, p)})
                  = Cardinality({q \in em :
                                 ChainOf(last.node, q) = ChainOf(last.node, p)})
            /\ \A i \in DOMAIN last.styles :
                  \E p \in em :
                      /\ last.styles[i].selector = ChainOf(last.node, p)
                      /\ Len(last.styles[i].selector) = Len(p) + 1

\* C14 witness: the top level has only a nested block and emits nothing;
\* the one style emitted is that of the nested level, its hierarchy two
\* selectors long, the second with a with-class and a without-class.
C14_Witness ==
    /\ last.op = "from_style_node"
    /\ last.node.properties = <<>>
    /\ Len(last.node.children) = 1
    /\ Len(last.styles) = 1
    /\ Len(last.styles[1].selector) = 2
    /\ last.styles[1].selector[1].widget = alloc.widgets["div"]
    /\ {"hover", "pressed"} \subseteq DOMAIN alloc.classes
    /\ last.styles[1].selector[2].with_classes = {alloc.classes["hover"]}
    /\ last.styles[1].selector[2].without_classes = {alloc.classes["pressed"]}

-----------------------------------------------------------------------------
(* The layout loop of resolve_module on its own: the element forest and    *)
(* the errors it has built when the loop ends, before resolve_module       *)
(* decides between Ok and Err.                                             *)

MaxLayoutCalls == 2

\* Childless layout nodes: registered and unregistered widgets, with and
\* without classes and properties.
LayoutLeaves ==
    { LayoutNode("button", <<>>, <<>>, <<>>),
      LayoutNode("button", <<"hover">>, <<PropertyNode("width", Px("1"))>>, <<>>),
      LayoutNode("div", <<"menu">>, <<>>, <<>>),
      LayoutNode("blob", <<>>, <<PropertyNode("bad", Px("1"))>>, <<>>) }

\* Layout nodes holding one or two leaves.
LayoutBranches ==
    { LayoutNode(w, c, <<>>, ch) :
        w \in {"div", "blob"}, c \in {<<>>, <<"menu">>},
        ch \in { <<a>> : a \in LayoutLeaves }
               \cup { <<a, b>> : a \in LayoutLeaves, b \in LayoutLeaves } }

\* Layout nodes three levels deep.
LayoutTrunks ==
    { LayoutNode("div", <<>>, <<>>, ch) :
        ch \in UNION { { <<m>>, <<m, LayoutNode("button", <<>>, <<>>, <<>>)>>,
                         <<LayoutNode("blob", <<>>, <<>>, <<>>), m>> } :
                       m \in { b \in LayoutBranches : Len(b.children) = 1 } } }

\* The layout lists handed to the loop.
LayoutForests ==
    {<<>>}
    \cup { <<t>> : t \in LayoutLeaves \cup LayoutBranches \cup LayoutTrunks }
    \cup { <<a, b>> : a \in LayoutLeaves, b \in LayoutLeaves }
    \cup { <<LayoutNode("blob", <<>>, <<>>, <<>>), t>> : t \in LayoutTrunks }

InitLayout ==
    /\ alloc = HostAlloc
    /\ widgets = HostWidgets
    /\ contexts = [n \in {"m"} |-> NewContext]
    /\ calls = 0
    /\ last = NoCall
    /\ cp = <<>>
    /\ sh = <<>>
    /\ lock = "none"
    /\ threads = Idle
    /\ tokenizer = NoTokenizer
    /\ parser = NoParser

\* for layout in module.layouts { resolve_layout_node_recursive(..) }
LayoutLoop(layouts) ==
    /\ calls < MaxLayoutCalls
    /\ \E r \in {ResolveLayouts(layouts, 1, contexts["m"],
                                [al |-> alloc, errors |-> <<>>, elements |-> <<>>])} :
           /\ alloc' = r.al
           /\ last' = [op |-> "layouts", layouts |-> layouts,
                       elements |-> r.elements, errors |-> r.errors]
    /\ calls' = calls + 1
    /\ UNCHANGED <<widgets, contexts, cp, sh, lock, threads,
                 tokenizer, parser>>

NextLayout == \E layouts \in LayoutForests : LayoutLoop(layouts)

SpecLayout == InitLayout /\ [][NextLayout]_vars

\* The layout node reached from a list of top-level layouts by a path of
\* child indices, the first index choosing the top-level layout.
LayoutAt(layouts, path) ==
    IF Len(path) = 1 THEN layouts[path[1]]
    ELSE NodeAt(layouts[path[1]], Tail(path))

\* The paths of all nodes of a list of layouts.
LayoutPaths(layouts) ==
    UNION { { <<i>> \o p : p \in PathsOf(layouts[i]) } : i \in DOMAIN layouts }

\* A widget name the host has registered.
Known(al, name) == name \in DOMAIN al.widgets /\ al.widgets[name] \in DOMAIN widgets

\* A node the loop gets to: every node that encloses it names a registered
\* widget.
Visited(al, layouts, path) ==
    \A d \in 1..(Len(path) - 1) : Known(al, LayoutAt(layouts, SubSeq(path, 1, d)).widget)

\* The children of a node, or the top-level layouts, that name a registered
\* widget, in declaration order.
RECURSIVE Kept(_, _)
Kept(al, nodes) ==
    IF nodes = <<>> THEN <<>>
    ELSE IF Known(al, Head(nodes).widget)
         THEN <<Head(nodes)>> \o Kept(al, Tail(nodes))
         ELSE Kept(al, Tail(nodes))

\* The element is the one of the node: its widget and classes, and one child
\* per kept child of the node, in order.
RECURSIVE Mirrors(_, _, _)
Mirrors(al, node, element) ==
    /\ Known(al, node.widget)
    /\ element.widget = al.widgets[node.widget]
    /\ element.classpath[Len(element.classpath)].classes =
           { al.classes[c] : c \in Range(node.classes) }
    /\ Len(element.children) = Len(Kept(al, node.children))
    /\ \A k \in DOMAIN element.children :
           Mirrors(al, Kept(al, node.children)[k], element.children[k])

\* The number of entries of a sequence that satisfy a test.
Count(seq, T(_)) == Cardinality({ i \in DOMAIN seq : T(seq[i]) })

\* C15: a visited layout node with an unregistered widget adds exactly one
\* UnknownWidget error carrying the node's widget name and position; nothing
\* under it is examined, so no error lies below its position; it and its
\* descendants give no element, so its parent's children are the elements
\* of the registered siblings, and the following siblings and top-level
\* layouts are resolved all the same.
C15_UnknownLayoutWidget ==
    last.op = "layouts" =>
        /\ \A p \in LayoutPaths(last.layouts) :
               (/\ Visited(alloc, last.layouts, p)
                /\ ~Known(alloc, LayoutAt(last.layouts, p).widget))
               => /\ Count(last.errors, LAMBDA e :
                         e = UnknownWidget(LayoutAt(last.layouts, p).widget,
                                           <<3>> \o p)) = 1
                  /\ \A i \in DOMAIN last.errors :
                         ~(/\ Len(last.errors[i].pos) > Len(p) + 1
                           /\ SubSeq(last.errors[i].pos, 1, Len(p) + 1) = <<3>> \o p)
        /\ Len(last.elements) = Len(Kept(alloc, last.layouts))
        /\ \A k \in DOMAIN last.elements :
               Mirrors(alloc, Kept(alloc, last.layouts)[k], last.elements[k])

\* A div holding an unregistered branch with children of its own, followed
\* by a button: one error, and the div's only child is the button.
C15_Witness ==
    /\ last.op = "layouts"
    /\ Len(last.layouts) = 1
    /\ last.layouts[1].widget = "div"
    /\ Len(last.layouts[1].children) = 2
    /\ last.layouts[1].children[1].widget = "blob"
    /\ last.layouts[1].children[1].children # <<>>
    /\ last.layouts[1].children[2].widget = "button"
    /\ last.errors = <<UnknownWidget("blob", <<3, 1, 1>>)>>
    /\ Len(last.elements) = 1
    /\ Len(last.elements[1].children) = 1
    /\ last.elements[1].children[1].widget = alloc.widgets["button"]


-----------------------------------------------------------------------------
(* The forest resolve_module returns.                                      *)

\* The element stands for the layout node: its widget and declared classes,
\* and child by child the same, in declaration order.
RECURSIVE Corresponds(_, _)
Corresponds(node, element) ==
    /\ Registered(node.widget)
    /\ element.widget = alloc.widgets[node.widget]
    /\ element.classpath[Len(element.classpath)].classes =
           { alloc.classes[c] : c \in Range(node.classes) }
    /\ Len(element.children) = Len(node.children)
    /\ \A k \in DOMAIN node.children :
           Corresponds(node.children[k], element.children[k])

\* C16: when resolve_module returns Ok, the returned list has one element
\* per top-level layout of the module, in the module's order, and every
\* element has one child element per child layout node, in declaration
\* order.
C16_OutputForest ==
    (last.op = "resolve" /\ last.ok) =>
        /\ Len(last.elements) = Len(last.module.layouts)
        /\ \A i \in DOMAIN last.module.layouts :
               Corresponds(last.module.layouts[i], last.elements[i])

\* An Ok result for a module with two top-level layouts, the second of
\* which has two children of different widgets.
C16_Witness ==
    /\ last.op = "resolve"
    /\ last.ok
    /\ Len(last.module.layouts) = 2
    /\ Len(last.elements) = 2
    /\ last.elements[1].widget # last.elements[2].widget
    /\ Len(last.elements[2].children) = 2
    /\ last.elements[2].children[1].widget # last.elements[2].children[2].widget


-----------------------------------------------------------------------------
(* The class path of the elements the layout loop builds.                  *)

\* The class path entry of a layout node: its widget and its declared
\* classes, as identifiers.
EntryOf(node) ==
    [widget |-> alloc.widgets[node.widget],
     classes |-> { alloc.classes[c] : c \in Range(node.classes) }]

\* The element of a kept node at the given depth, below a parent with the
\* given class path (<<>> above a top-level layout), and its descendants.
RECURSIVE PathExtended(_, _, _, _)
PathExtended(node, element, above, depth) ==
    /\ Len(element.classpath) >= 1
    /\ Len(element.classpath) = depth
    /\ element.classpath = Append(above, EntryOf(node))
    /\ SubSeq(element.classpath, 1, Len(above)) = above
    /\ element.widget = element.classpath[Len(element.classpath)].widget
    /\ Len(element.children) = Len(Kept(alloc, node.children))
    /\ \A k \in DOMAIN element.children :
           PathExtended(Kept(alloc, node.children)[k], element.children[k],
                        element.classpath, depth + 1)

\* C17: every element has a class path of length >= 1 equal to its depth in
\* the layout tree (1 for a top-level layout); a child's class path is its
\* parent's followed by one entry of the child's widget and declared
\* classes, the parent's entries unchanged; the element's widget is the
\* widget of the last entry.
C17_ClassPathInvariant ==
    last.op = "layouts" =>
        /\ Len(last.elements) = Len(Kept(alloc, last.layouts))
        /\ \A k \in DOMAIN last.elements :
               PathExtended(Kept(alloc, last.layouts)[k], last.elements[k], <<>>, 1)

\* An element at depth three below a parent with a class of its own.
C17_Witness ==
    /\ last.op = "layouts"
    /\ \E i \in DOMAIN last.elements :
          \E j \in DOMAIN last.elements[i].children :
             \E k \in DOMAIN last.elements[i].children[j].children :
                /\ Len(last.elements[i].children[j].children[k].classpath) = 3
                /\ last.elements[i].children[j].classpath[2].classes # {}
                /\ last.elements[i].children[j].children[k].classpath[2].classes # {}


-----------------------------------------------------------------------------
(* The module table over several calls: modules that import one another,   *)
(* are resolved again under the same name, or fail.                        *)

MaxTableCalls == 3

\* Modules about the module table: imports of stored and of missing
\* modules, variables that differ from call to call, layouts that fail.
TableModules ==
    { ModuleNode(i, v, <<>>, l) :
        i \in {<<>>, <<"A">>, <<"B">>, <<"X">>},
        v \in {<<>>, <<VarA("red")>>, <<VarA("blue")>>, <<VarBfromA>>},
        l \in {<<>>, <<LayoutButton>>, <<LayoutUnknown>>} }

\* vm.resolve_module(name, module), up to MaxTableCalls calls.
TableResolve(name, module) ==
    /\ calls < MaxTableCalls
    /\ \E r \in {ResolveModule(alloc, name, module)} :
           /\ alloc' = r.al
           /\ contexts' = r.contexts
           /\ last' = [op |-> "resolve", name |-> name, module |-> module,
                       pre |-> contexts, ok |-> r.ok, elements |-> r.elements,
                       errors |-> r.errors, collected |-> r.collected]
    /\ calls' = calls + 1
    /\ UNCHANGED <<widgets, cp, sh, lock, threads,
                 tokenizer, parser>>

NextTable ==
    \E name \in ModuleNames, module \in TableModules : TableResolve(name, module)

SpecTable == Init /\ [][NextTable]_vars

\* C18: a resolve_module(name, module) call leaves the registered widget
\* definitions and the stored context of every module other than name as
\* they were, the imported modules included, and adds or removes no other
\* entry; a call that fails leaves the whole module table as it was, and a
\* call that succeeds has an entry for name afterwards.
C18_ModuleTableFrame ==
    [][ /\ widgets' = widgets
        /\ DOMAIN contexts' \ {last'.name} = DOMAIN contexts \ {last'.name}
        /\ \A n \in DOMAIN contexts \ {last'.name} : contexts'[n] = contexts[n]
        /\ ~last'.ok => contexts' = contexts
        /\ last'.ok => last'.name \in DOMAIN contexts' ]_vars

\* A successful call that imports a stored module and overwrites the entry
\* of its own name with a different context.
C18_Witness ==
    /\ last.op = "resolve"
    /\ last.ok
    /\ last.name \in DOMAIN last.pre
    /\ contexts[last.name] # last.pre[last.name]
    /\ last.module.imports # <<>>
    /\ \A i \in DOMAIN last.module.imports :
           /\ last.module.imports[i] # last.name
           /\ last.module.imports[i] \in DOMAIN last.pre
           /\ contexts[last.module.imports[i]] = last.pre[last.module.imports[i]]
           /\ last.pre[last.module.imports[i]] # NewContext


-----------------------------------------------------------------------------
(* parse/token.rs : the tokenizer.  A text is a sequence of characters,    *)
(* each a string of length one.                                            *)

AsciiDigit == {"0", "1", "2", "3", "4", "5", "6", "7", "8", "9"}
AsciiLower ==
    {"a", "b", "c", "d", "e", "f", "g", "h", "i", "j", "k", "l", "m",
     "n", "o", "p", "q", "r", "s", "t", "u", "v", "w", "x", "y", "z"}
AsciiUpper ==
    {"A", "B", "C", "D", "E", "F", "G", "H", "I", "J", "K", "L", "M",
     "N", "O", "P", "Q", "R", "S", "T", "U", "V", "W", "X", "Y", "Z"}

\* char::is_whitespace, for the characters of the texts considered.
Whitespace == {" ", "\t", "\n", "\r"}

\* 'a' ..= 'z' | 'A' ..= 'Z' | '_'
IdentifierStart == AsciiLower \cup AsciiUpper \cup {"_"}

\* identifier_char
IdentifierChar == AsciiLower \cup AsciiUpper \cup AsciiDigit \cup {"_", "-"}

\* '"' | '\'' | the backtick; a TLA+ string cannot hold a backtick, which is
\* left out.
Quote == {"\"", "'"}

\* '0' ..= '9' | '.' | '-'
NumberStart == AsciiDigit \cup {".", "-"}

\* digit_char
DigitChar == AsciiDigit \cup {"."}

\* hex_char
HexChar == AsciiDigit \cup {"a", "b", "c", "d", "e", "f"}
                      \cup {"A", "B", "C", "D", "E", "F"}

\* The single-character tokens and their types.
Punctuation ==
    [c \in {"$", "+", "!", "{", "}", ":", ";", "%"} |->
        CASE c = "$" -> "Variable"
          [] c = "+" -> "WithClass"
          [] c = "!" -> "WithoutClass"
          [] c = "{" -> "BeginProperties"
          [] c = "}" -> "EndProperties"
          [] c = ":" -> "PropertyValue"
          [] c = ";" -> "EndOfStatement"
          [] c = "%" -> "Percent"]

TokenPosition(line, column, length) ==
    [line |-> line, column |-> column, length |-> length]

\* TokenValue
ValueNone       == [t |-> "none"]
ValueString(s)  == [t |-> "string", v |-> s]
ValueNumber(n)  == [t |-> "number", v |-> n]
ValueColor(c)   == [t |-> "color", v |-> c]
ValueBoolean(b) == [t |-> "boolean", v |-> b]

Token(type, value, position) ==
    [token_type |-> type, value |-> value, position |-> position]

\* TokenizeError
UnexpectedCharacter(c, position) ==
    [kind |-> "UnexpectedCharacter", char |-> c, position |-> position]
UnexpectedEndOfInput == [kind |-> "UnexpectedEndOfInput"]
InvalidNumberFormat(value, position) ==
    [kind |-> "InvalidNumberFormat", value |-> value, position |-> position]
InvalidColorFormat(value, position) ==
    [kind |-> "InvalidColorFormat", value |-> value, position |-> position]

\* Peekable::next_if in a while loop: how many leading characters belong to
\* the class.
RECURSIVE NextIf(_, _)
NextIf(chars, class) ==
    IF chars # <<>> /\ Head(chars) \in class
    THEN 1 + NextIf(Tail(chars), class)
    ELSE 0

\* The characters that remain after the first n.
Drop(chars, n) == SubSeq(chars, n + 1, Len(chars))

\* The value of a decimal digit and of a hexadecimal digit.
DigitValue(c) ==
    CHOOSE n \in 0..9 : <<"0", "1", "2", "3", "4", "5", "6", "7", "8", "9">>[n + 1] = c
HexValue(c) ==
    IF c \in AsciiDigit THEN DigitValue(c)
    ELSE CHOOSE n \in 10..15 :
             \/ <<"a", "b", "c", "d", "e", "f">>[n - 9] = c
             \/ <<"A", "B", "C", "D", "E", "F">>[n - 9] = c

\* hex_to_byte of two hexadecimal digits.
HexToByte(hi, lo) == 16 * HexValue(hi) + HexValue(lo)

\* Color::srgb_u8 and Color::srgba_u8
Srgba(r, g, b, a) == [r |-> r, g |-> g, b |-> b, a |-> a]

\* hex_to_color
HexToColor(hex, position) ==
    CASE Len(hex) = 3 ->
            [ok |-> TRUE,
             color |-> Srgba(HexToByte(hex[1], hex[1]), HexToByte(hex[2], hex[2]),
                             HexToByte(hex[3], hex[3]), 255)]
      [] Len(hex) = 6 ->
            [ok |-> TRUE,
             color |-> Srgba(HexToByte(hex[1], hex[2]), HexToByte(hex[3], hex[4]),
                             HexToByte(hex[5], hex[6]), 255)]
      [] Len(hex) = 8 ->
            [ok |-> TRUE,
             color |-> Srgba(HexToByte(hex[1], hex[2]), HexToByte(hex[3], hex[4]),
                             HexToByte(hex[5], hex[6]), HexToByte(hex[7], hex[8]))]
      [] OTHER -> [ok |-> FALSE, err |-> InvalidColorFormat(hex, position)]

\* The digits of a numeral without its leading zeros, and without its
\* trailing zeros.
RECURSIVE StripLeading(_)
StripLeading(digits) ==
    IF digits # <<>> /\ Head(digits) = "0" THEN StripLeading(Tail(digits))
    ELSE digits
StripTrailing(digits) == Reverse(StripLeading(Reverse(digits)))

\* f64::from_str on a text of digits and points: the text is a number when
\* it has a digit and at most one point; the number is given by the digits
\* before and after the point.
ParseF64(value) ==
    IF \/ Cardinality({i \in DOMAIN value : value[i] = "."}) > 1
       \/ \A i \in DOMAIN value : value[i] = "."
    THEN [ok |-> FALSE]
    ELSE Then(NextIf(value, AsciiDigit), LAMBDA n :
             [ok |-> TRUE,
              number |-> [whole |-> StripLeading(SubSeq(value, 1, n)),
                          frac  |-> StripTrailing(Drop(value, n + 1))]])

\* str_to_num
StrToNum(value, pos) ==
    Then(ParseF64(value), LAMBDA r :
        IF r.ok THEN r
        ELSE [ok |-> FALSE,
              err |-> InvalidNumberFormat(value,
                         TokenPosition(pos.line, pos.column, Len(value)))])

\* The keywords, spelled out character by character.
KeywordImport == <<"i", "m", "p", "o", "r", "t">>
KeywordPx     == <<"p", "x">>
KeywordTrue   == <<"t", "r", "u", "e">>
KeywordFalse  == <<"f", "a", "l", "s", "e">>
KeywordStyle  == <<"s", "t", "y", "l", "e">>
KeywordVar    == <<"v", "a", "r">>
KeywordLayout == <<"l", "a", "y", "o", "u", "t">>
KeywordWith   == <<"w", "i", "t", "h">>

\* map_imports
MapImports(token) ==
    IF token.token_type # "Identifier" \/ token.value.t # "string" THEN token
    ELSE CASE token.value.v = KeywordImport ->
                [token EXCEPT !.token_type = "ImportKeyword", !.value = ValueNone]
           [] token.value.v = KeywordPx ->
                [token EXCEPT !.token_type = "PxKeyword", !.value = ValueNone]
           [] token.value.v = KeywordTrue ->
                [token EXCEPT !.token_type = "BooleanLiteral",
                              !.value = ValueBoolean(TRUE)]
           [] token.value.v = KeywordFalse ->
                [token EXCEPT !.token_type = "BooleanLiteral",
                              !.value = ValueBoolean(FALSE)]
           [] token.value.v = KeywordStyle ->
                [token EXCEPT !.token_type = "StyleKeyword", !.value = ValueNone]
           [] token.value.v = KeywordVar ->
                [token EXCEPT !.token_type = "VarKeyword", !.value = ValueNone]
           [] token.value.v = KeywordLayout ->
                [token EXCEPT !.token_type = "LayoutKeyword", !.value = ValueNone]
           [] token.value.v = KeywordWith ->
                [token EXCEPT !.token_type = "WithKeyword", !.value = ValueNone]
           [] OTHER -> token

\* The results of next: a token, the end of the text, an error.  pos is the
\* TokenizerPosition [chars, line, column] afterwards.
SomeToken(pos, token) == [pos |-> pos, ok |-> TRUE, some |-> TRUE, token |-> token]
NoToken(pos)          == [pos |-> pos, ok |-> TRUE, some |-> FALSE]
TokenizeErr(pos, err) == [pos |-> pos, ok |-> FALSE, some |-> FALSE, err |-> err]

\* next, identifier branch
NextIdentifier(pos) ==
    Then(NextIf(pos.chars, IdentifierChar), LAMBDA len :
        SomeToken([chars |-> Drop(pos.chars, len), line |-> pos.line,
                   column |-> pos.column + len],
                  Token("Identifier", ValueString(SubSeq(pos.chars, 1, len)),
                        TokenPosition(pos.line, pos.column + len - len, len))))

\* next, string branch: the position of the closing quote among the
\* characters after the opening one, 0 when there is none.
ClosingQuote(chars, c) ==
    IF \E i \in DOMAIN chars : chars[i] = c
    THEN CHOOSE i \in DOMAIN chars :
             chars[i] = c /\ \A j \in 1..(i - 1) : chars[j] # c
    ELSE 0

NextString(pos, c) ==
    Then(ClosingQuote(Tail(pos.chars), c), LAMBDA n :
        IF n = 0
        THEN TokenizeErr([chars |-> <<>>, line |-> pos.line,
                          column |-> pos.column + Len(pos.chars)],
                         UnexpectedEndOfInput)
        ELSE SomeToken([chars |-> Drop(pos.chars, n + 1), line |-> pos.line,
                        column |-> pos.column + 1 + n],
                       Token("StringLiteral",
                             ValueString(SubSeq(pos.chars, 2, n)),
                             TokenPosition(pos.line, pos.column, (n - 1) + 2))))

\* next, number branch
NextNumber(pos) ==
    Then(NextIf(pos.chars, DigitChar), LAMBDA len :
    Then(StrToNum(SubSeq(pos.chars, 1, len),
                  [chars |-> Drop(pos.chars, len), line |-> pos.line,
                   column |-> pos.column]), LAMBDA r :
        IF ~r.ok
        THEN TokenizeErr([chars |-> Drop(pos.chars, len), line |-> pos.line,
                          column |-> pos.column], r.err)
        ELSE SomeToken([chars |-> Drop(pos.chars, len), line |-> pos.line,
                        column |-> pos.column + len],
                       Token("NumberLiteral", ValueNumber(r.number),
                             TokenPosition(pos.line, pos.column, len)))))

\* next, color branch
NextColor(pos) ==
    Then(NextIf(Tail(pos.chars), HexChar), LAMBDA n :
    Then(HexToColor(SubSeq(pos.chars, 2, n + 1),
                    TokenPosition(pos.line, pos.column, n + 1)), LAMBDA r :
        IF ~r.ok
        THEN TokenizeErr([chars |-> Drop(pos.chars, n + 1), line |-> pos.line,
                          column |-> pos.column], r.err)
        ELSE SomeToken([chars |-> Drop(pos.chars, n + 1), line |-> pos.line,
                        column |-> pos.column + (n + 1)],
                       Token("ColorLiteral", ValueColor(r.color),
                             TokenPosition(pos.line,
                                           pos.column + (n + 1) - (n + 1), n + 1)))))

\* next, the branches of one punctuation character
NextPunctuation(pos, c) ==
    SomeToken([chars |-> Tail(pos.chars), line |-> pos.line,
               column |-> pos.column + 1],
              Token(Punctuation[c], ValueNone,
                    TokenPosition(pos.line, pos.column + 1 - 1, 1)))

\* next, '/' branch: the characters from the '/' on are taken up to and
\* including the next line feed, or up to the end of the text.
SkipSlash(pos) ==
    Then(ClosingQuote(pos.chars, "\n"), LAMBDA n :
        IF n = 0
        THEN [chars |-> <<>>, line |-> pos.line,
              column |-> pos.column + Len(pos.chars)]
        ELSE [chars |-> Drop(pos.chars, n), line |-> pos.line + 1, column |-> 1])

\* next
RECURSIVE TokenizerNext(_)
TokenizerNext(pos) ==
    IF pos.chars = <<>> THEN NoToken(pos)
    ELSE IF Head(pos.chars) \in Whitespace
    THEN TokenizerNext([chars |-> Tail(pos.chars),
                        line |-> IF Head(pos.chars) = "\n" THEN pos.line + 1
                                 ELSE pos.line,
                        column |-> IF Head(pos.chars) = "\n" THEN 1
                                   ELSE pos.column + 1])
    ELSE IF Head(pos.chars) \in IdentifierStart THEN NextIdentifier(pos)
    ELSE IF Head(pos.chars) \in Quote THEN NextString(pos, Head(pos.chars))
    ELSE IF Head(pos.chars) \in NumberStart THEN NextNumber(pos)
    ELSE IF Head(pos.chars) = "#" THEN NextColor(pos)
    ELSE IF Head(pos.chars) \in DOMAIN Punctuation
    THEN NextPunctuation(pos, Head(pos.chars))
    ELSE IF Head(pos.chars) = "/" THEN TokenizerNext(SkipSlash(pos))
    ELSE TokenizeErr(pos, UnexpectedCharacter(Head(pos.chars),
                             TokenPosition(pos.line, pos.column, 1)))


-----------------------------------------------------------------------------
(* parse/ast.rs : the parser.  The token iterator is the token list with   *)
(* the index of the next token; a result carries the index afterwards.     *)

\* TokenType::type_name
TypeName ==
    [Identifier |-> "identifier", StringLiteral |-> "string",
     NumberLiteral |-> "number", ColorLiteral |-> "color",
     BooleanLiteral |-> "boolean", WithClass |-> "'+'", WithoutClass |-> "'!'",
     PropertyValue |-> "':'", EndOfStatement |-> "';'",
     BeginProperties |-> "'{'", EndProperties |-> "'}'", Percent |-> "'%'",
     Variable |-> "'$'", ImportKeyword |-> "'import'", PxKeyword |-> "'px'",
     StyleKeyword |-> "'style'", VarKeyword |-> "'var'",
     LayoutKeyword |-> "'layout'", WithKeyword |-> "'with'"]

\* NekoMaidParseError
UnexpectedToken(expected, found, position) ==
    [kind |-> "UnexpectedToken", expected |-> expected, found |-> found,
     position |-> position]
EndOfStream == [kind |-> "EndOfStream"]
InvalidTokenValue(expected, found) ==
    [kind |-> "InvalidTokenValue", expected |-> expected, found |-> found]

\* Ok(value) and Err(err), with the index of the next token.
ParseOk(next, value) == [ok |-> TRUE, next |-> next, value |-> value]
ParseErr(next, err)  == [ok |-> FALSE, next |-> next, err |-> err]

\* The ? operator: go on with an Ok result, return an Err result.
Try(x, F(_)) ==
    CHOOSE y \in { IF r.ok THEN F(r) ELSE ParseErr(r.next, r.err) : r \in {x} } : TRUE

\* tokens.peek().map(|t| t.position).unwrap_or_default()
PeekPosition(tokens, i) ==
    IF i <= Len(tokens) THEN tokens[i].position ELSE TokenPosition(1, 1, 0)

\* An expect that passes over the tokens of another type until it finds
\* one of the expected type.
RECURSIVE ExpectSkipping(_, _, _)
ExpectSkipping(tokens, i, expected) ==
    IF i > Len(tokens) THEN ParseErr(i, EndOfStream)
    ELSE IF tokens[i].token_type = expected
         THEN ParseOk(i + 1, tokens[i].value)
         ELSE ExpectSkipping(tokens, i + 1, expected)

\* next: the result is the token itself.
ParserNext(tokens, i) ==
    IF i > Len(tokens) THEN ParseErr(i, EndOfStream)
    ELSE ParseOk(i + 1, tokens[i])

\* maybe_next
MaybeNext(tokens, i, ty) ==
    IF i <= Len(tokens) /\ tokens[i].token_type = ty
    THEN [some |-> TRUE, next |-> i + 1, value |-> tokens[i].value]
    ELSE [some |-> FALSE, next |-> i]

\* expect
Expect(tokens, i, expected) ==
    Try(ParserNext(tokens, i), LAMBDA r :
        IF r.value.token_type = expected
        THEN ParseOk(r.next, r.value.value)
        ELSE ParseErr(r.next,
                      UnexpectedToken(<<TypeName[expected]>>,
                                      TypeName[r.value.token_type],
                                      r.value.position)))

\* as_string, as_number, as_boolean, as_color on the value of a result
AsValue(r, type) ==
    IF r.value.t = type THEN ParseOk(r.next, r.value.v)
    ELSE ParseErr(r.next, InvalidTokenValue(type, r.value.t))
AsString(r)  == AsValue(r, "string")
AsNumber(r)  == AsValue(r, "number")
AsBoolean(r) == AsValue(r, "boolean")
AsColor(r)   == AsValue(r, "color")

\* parse_import
ParseImport(tokens, i) ==
    Try(Expect(tokens, i, "ImportKeyword"), LAMBDA r1 :
    Try(Expect(tokens, r1.next, "StringLiteral"), LAMBDA r2 :
    Try(AsString(r2), LAMBDA path :
    Try(Expect(tokens, path.next, "EndOfStatement"), LAMBDA r3 :
        ParseOk(r3.next, [path |-> path.value,
                          position |-> PeekPosition(tokens, r1.next)])))))

\* A parse_value that never looks at what follows a number: every number
\* literal is a plain Number and a unit behind it is left in the list.
ParseValueBare(tokens, i) ==
    Try(ParserNext(tokens, i), LAMBDA r :
        CASE r.value.token_type \in {"StringLiteral", "Identifier"} ->
                ParseOk(r.next, [t |-> "String", v |-> r.value.value.v])
          [] r.value.token_type = "NumberLiteral" ->
                ParseOk(r.next, [t |-> "Number", v |-> r.value.value.v])
          [] r.value.token_type = "BooleanLiteral" ->
                ParseOk(r.next, [t |-> "Bool", v |-> r.value.value.v])
          [] r.value.token_type = "ColorLiteral" ->
                ParseOk(r.next, [t |-> "Color", v |-> r.value.value.v])
          [] r.value.token_type = "Variable" ->
                Try(Expect(tokens, r.next, "Identifier"), LAMBDA e :
                    ParseOk(e.next, [t |-> "Variable", name |-> e.value.v,
                                     position |-> r.value.position]))
          [] OTHER ->
                ParseErr(r.next,
                         UnexpectedToken(<<TypeName["StringLiteral"],
                                           TypeName["NumberLiteral"],
                                           TypeName["BooleanLiteral"],
                                           TypeName["ColorLiteral"],
                                           TypeName["Variable"]>>,
                                         TypeName[r.value.token_type],
                                         r.value.position)))

\* parse_value
ParseValue(tokens, i) ==
    Try(ParserNext(tokens, i), LAMBDA r :
        CASE r.value.token_type \in {"StringLiteral", "Identifier"} ->
                Try(AsString(ParseOk(r.next, r.value.value)), LAMBDA s :
                    ParseOk(s.next, [t |-> "String", v |-> s.value]))
          [] r.value.token_type = "NumberLiteral" ->
                Try(AsNumber(ParseOk(r.next, r.value.value)), LAMBDA n :
                    IF MaybeNext(tokens, n.next, "PxKeyword").some
                    THEN ParseOk(n.next + 1, [t |-> "Pixels", v |-> n.value])
                    ELSE IF MaybeNext(tokens, n.next, "Percent").some
                    THEN ParseOk(n.next + 1, [t |-> "Percent", v |-> n.value])
                    ELSE ParseOk(n.next, [t |-> "Number", v |-> n.value]))
          [] r.value.token_type = "BooleanLiteral" ->
                Try(AsBoolean(ParseOk(r.next, r.value.value)), LAMBDA b :
                    ParseOk(b.next, [t |-> "Bool", v |-> b.value]))
          [] r.value.token_type = "ColorLiteral" ->
                Try(AsColor(ParseOk(r.next, r.value.value)), LAMBDA c :
                    ParseOk(c.next, [t |-> "Color", v |-> c.value]))
          [] r.value.token_type = "Variable" ->
                Try(Expect(tokens, r.next, "Identifier"), LAMBDA e :
                Try(AsString(e), LAMBDA name :
                    ParseOk(name.next, [t |-> "Variable", name |-> name.value,
                                        position |-> r.value.position])))
          [] OTHER ->
                ParseErr(r.next,
                         UnexpectedToken(<<TypeName["StringLiteral"],
                                           TypeName["NumberLiteral"],
                                           TypeName["BooleanLiteral"],
                                           TypeName["ColorLiteral"],
                                           TypeName["Variable"]>>,
                                         TypeName[r.value.token_type],
                                         r.value.position)))

\* parse_property
ParseProperty(tokens, i) ==
    Try(Expect(tokens, i, "Identifier"), LAMBDA r1 :
    Try(AsString(r1), LAMBDA name :
    Try(Expect(tokens, name.next, "PropertyValue"), LAMBDA r2 :
    Try(ParseValue(tokens, r2.next), LAMBDA value :
    Try(Expect(tokens, value.next, "EndOfStatement"), LAMBDA r3 :
        ParseOk(r3.next, [name |-> name.value, value |-> value.value,
                          position |-> PeekPosition(tokens, r2.next)]))))))

\* parse_variable
ParseVariable(tokens, i) ==
    Try(Expect(tokens, i, "VarKeyword"), LAMBDA r :
        ParseProperty(tokens, r.next))

\* parse_selector, the loop over the class parts
RECURSIVE SelectorLoop(_, _, _)
SelectorLoop(tokens, i, selector) ==
    IF i > Len(tokens) THEN ParseOk(i, selector)
    ELSE CASE tokens[i].token_type = "WithClass" ->
                Try(Expect(tokens, i, "WithClass"), LAMBDA r :
                Try(Expect(tokens, r.next, "Identifier"), LAMBDA e :
                Try(AsString(e), LAMBDA class :
                    SelectorLoop(tokens, class.next,
                        [selector EXCEPT !.parts =
                            Append(@, [part |-> "WithClass",
                                       class |-> class.value])]))))
           [] tokens[i].token_type = "WithoutClass" ->
                Try(Expect(tokens, i, "WithoutClass"), LAMBDA r :
                Try(Expect(tokens, r.next, "Identifier"), LAMBDA e :
                Try(AsString(e), LAMBDA class :
                    SelectorLoop(tokens, class.next,
                        [selector EXCEPT !.parts =
                            Append(@, [part |-> "WithoutClass",
                                       class |-> class.value])]))))
           [] tokens[i].token_type = "BeginProperties" -> ParseOk(i, selector)
           [] OTHER ->
                ParseErr(i, UnexpectedToken(<<TypeName["WithClass"],
                                              TypeName["WithoutClass"],
                                              TypeName["BeginProperties"]>>,
                                            TypeName[tokens[i].token_type],
                                            tokens[i].position))

\* parse_selector
ParseSelector(tokens, i) ==
    Try(Expect(tokens, i, "Identifier"), LAMBDA e :
    Try(AsString(e), LAMBDA widget :
        SelectorLoop(tokens, widget.next,
                     [widget |-> widget.value, parts |-> <<>>,
                      position |-> PeekPosition(tokens, i)])))

RECURSIVE ParseStyleBlock(_, _)
RECURSIVE StyleBlockLoop(_, _, _)

\* parse_style_block, the loop over the statements of the block
StyleBlockLoop(tokens, i, node) ==
    IF i > Len(tokens) THEN ParseOk(i, node)
    ELSE CASE tokens[i].token_type = "EndProperties" -> ParseOk(i, node)
           [] tokens[i].token_type = "Identifier" ->
                Try(ParseProperty(tokens, i), LAMBDA property :
                    StyleBlockLoop(tokens, property.next,
                        [node EXCEPT !.properties = Append(@, property.value)]))
           [] tokens[i].token_type = "WithKeyword" ->
                Try(Expect(tokens, i, "WithKeyword"), LAMBDA r :
                Try(ParseStyleBlock(tokens, r.next), LAMBDA child :
                    StyleBlockLoop(tokens, child.next,
                        [node EXCEPT !.children = Append(@, child.value)])))
           [] OTHER ->
                ParseErr(i, UnexpectedToken(<<TypeName["Identifier"],
                                              TypeName["WithKeyword"],
                                              TypeName["EndProperties"]>>,
                                            TypeName[tokens[i].token_type],
                                            tokens[i].position))

\* parse_style_block
ParseStyleBlock(tokens, i) ==
    Try(ParseSelector(tokens, i), LAMBDA selector :
    Try(Expect(tokens, selector.next, "BeginProperties"), LAMBDA r1 :
    Try(StyleBlockLoop(tokens, r1.next,
                       [selector |-> selector.value, properties |-> <<>>,
                        children |-> <<>>]), LAMBDA node :
    Try(Expect(tokens, node.next, "EndProperties"), LAMBDA r2 :
        ParseOk(r2.next, node.value)))))

\* parse_style
ParseStyle(tokens, i) ==
    Try(Expect(tokens, i, "StyleKeyword"), LAMBDA r :
        ParseStyleBlock(tokens, r.next))

RECURSIVE ParseLayoutBlock(_, _)
RECURSIVE LayoutBlockLoop(_, _, _)

\* parse_layout_block, the loop over the statements of the block
LayoutBlockLoop(tokens, i, layout) ==
    IF i > Len(tokens) THEN ParseOk(i, layout)
    ELSE CASE tokens[i].token_type = "EndProperties" -> ParseOk(i, layout)
           [] tokens[i].token_type = "Identifier" ->
                Try(ParseProperty(tokens, i), LAMBDA property :
                    LayoutBlockLoop(tokens, property.next,
                        [layout EXCEPT !.properties = Append(@, property.value)]))
           [] tokens[i].token_type = "WithKeyword" ->
                Try(Expect(tokens, i, "WithKeyword"), LAMBDA r :
                Try(ParseLayoutBlock(tokens, r.next), LAMBDA child :
                    LayoutBlockLoop(tokens, child.next,
                        [layout EXCEPT !.children = Append(@, child.value)])))
           [] tokens[i].token_type = "WithClass" ->
                Try(Expect(tokens, i, "WithClass"), LAMBDA r :
                Try(Expect(tokens, r.next, "Identifier"), LAMBDA e :
                Try(AsString(e), LAMBDA class :
                Try(Expect(tokens, class.next, "EndOfStatement"), LAMBDA s :
                    LayoutBlockLoop(tokens, s.next,
                        [layout EXCEPT !.classes = Append(@, class.value)])))))
           [] OTHER ->
                ParseErr(i, UnexpectedToken(<<TypeName["Identifier"],
                                              TypeName["WithKeyword"],
                                              TypeName["WithClass"],
                                              TypeName["EndProperties"]>>,
                                            TypeName[tokens[i].token_type],
                                            tokens[i].position))

\* parse_layout_block
ParseLayoutBlock(tokens, i) ==
    Try(Expect(tokens, i, "Identifier"), LAMBDA e :
    Try(AsString(e), LAMBDA widget :
    Try(Expect(tokens, widget.next, "BeginProperties"), LAMBDA r1 :
    Try(LayoutBlockLoop(tokens, r1.next,
                        [widget |-> widget.value, classes |-> <<>>,
                         properties |-> <<>>, children |-> <<>>,
                         position |-> PeekPosition(tokens, i)]), LAMBDA layout :
    Try(Expect(tokens, layout.next, "EndProperties"), LAMBDA r2 :
        ParseOk(r2.next, layout.value))))))

\* parse_layout
ParseLayout(tokens, i) ==
    Try(Expect(tokens, i, "LayoutKeyword"), LAMBDA r :
        ParseLayoutBlock(tokens, r.next))

\* A parse_root whose loop lets a token that starts no statement stand:
\* the turn ends without an error and without taking the token.
ParseRootTurnIgnoring(tokens, i, file_node) ==
    IF tokens[i].token_type \in {"ImportKeyword", "VarKeyword", "StyleKeyword",
                                 "LayoutKeyword"}
    THEN ParseOk(i + 1, file_node)
    ELSE ParseOk(i, file_node)

\* ModuleNode::default()
ModuleDefault ==
    [imports |-> <<>>, variables |-> <<>>, styles |-> <<>>, layouts |-> <<>>]

\* parse_root, one turn of the loop with a token in sight: the statement
\* that starts at token i is parsed and pushed to the file node.
ParseRootTurn(tokens, i, file_node) ==
    CASE tokens[i].token_type = "ImportKeyword" ->
            Try(ParseImport(tokens, i), LAMBDA r :
                ParseOk(r.next, [file_node EXCEPT !.imports = Append(@, r.value)]))
      [] tokens[i].token_type = "VarKeyword" ->
            Try(ParseVariable(tokens, i), LAMBDA r :
                ParseOk(r.next, [file_node EXCEPT !.variables = Append(@, r.value)]))
      [] tokens[i].token_type = "StyleKeyword" ->
            Try(ParseStyle(tokens, i), LAMBDA r :
                ParseOk(r.next, [file_node EXCEPT !.styles = Append(@, r.value)]))
      [] tokens[i].token_type = "LayoutKeyword" ->
            Try(ParseLayout(tokens, i), LAMBDA r :
                ParseOk(r.next, [file_node EXCEPT !.layouts = Append(@, r.value)]))
      [] OTHER ->
            ParseErr(i, UnexpectedToken(<<TypeName["ImportKeyword"],
                                          TypeName["VarKeyword"],
                                          TypeName["StyleKeyword"],
                                          TypeName["LayoutKeyword"]>>,
                                        TypeName[tokens[i].token_type],
                                        tokens[i].position))

\* parse_root
RECURSIVE ParseRoot(_, _, _)
ParseRoot(tokens, i, file_node) ==
    IF i > Len(tokens) THEN ParseOk(i, file_node)
    ELSE Try(ParseRootTurn(tokens, i, file_node), LAMBDA r :
             ParseRoot(tokens, r.next, r.value))

\* build_ast
BuildAst(tokens) == ParseRoot(tokens, 1, ModuleDefault)

-----------------------------------------------------------------------------
(* tokenize, one call of next at a time, on texts of a few characters.     *)

MaxTextLen == 4

\* The characters the texts are made of: white space, a letter, a digit, a
\* point, a minus, a quote, '#', ';', '/', and two characters no token
\* starts with.
TextChars == {" ", "\n", "a", "1", ".", "-", "\"", "#", ";", "/", "@", "*"}

RECURSIVE TextsOfLen(_)
TextsOfLen(n) ==
    IF n = 0 THEN {<<>>}
    ELSE { Append(t, c) : t \in TextsOfLen(n - 1), c \in TextChars }

\* Longer texts: keywords, a comment between two tokens, a division sign.
TextSamples ==
    { KeywordImport, KeywordVar, KeywordWith, KeywordTrue \o <<";">>,
      <<"1", "p", "x", ";">>,
      <<"a", " ", "/", "/", " ", "b", "\n", "c", ";">>,
      <<"a", ":", "1", "/", "2", ";", "\n", "b", ";">>,
      <<"a", ":", "#", "f", "F", "0", ";">>,
      <<"'", "a", "'", "%", "$", "a", "{", "}", "+", "!">> }

Texts == UNION { TextsOfLen(n) : n \in 0..MaxTextLen } \cup TextSamples

\* tokenize(input), before the first call of next
InitTokenizer ==
    /\ alloc = NewAllocator
    /\ widgets = EmptyMap
    /\ contexts = EmptyMap
    /\ calls = 0
    /\ last = NoCall
    /\ cp = <<>>
    /\ sh = <<>>
    /\ lock = "none"
    /\ threads = Idle
    /\ \E text \in Texts :
           tokenizer = [text |-> text, chars |-> text, line |-> 1, column |-> 1,
                        tokens |-> <<>>, result |-> "running"]
    /\ parser = NoParser

\* while let Some(mut token) = next(&mut position)? { .. }: one turn of the
\* loop, or its end with Ok(tokens), or with the error of next.
TokenizeStep ==
    /\ tokenizer.result = "running"
    /\ \E r \in {TokenizerNext([chars |-> tokenizer.chars, line |-> tokenizer.line,
                                 column |-> tokenizer.column])} :
           tokenizer' =
               IF ~r.ok
               THEN [text |-> tokenizer.text, chars |-> r.pos.chars,
                     line |-> r.pos.line, column |-> r.pos.column,
                     tokens |-> <<>>, result |-> "err", err |-> r.err]
               ELSE IF ~r.some
               THEN [text |-> tokenizer.text, chars |-> r.pos.chars,
                     line |-> r.pos.line, column |-> r.pos.column,
                     tokens |-> tokenizer.tokens, result |-> "ok"]
               ELSE [text |-> tokenizer.text, chars |-> r.pos.chars,
                     line |-> r.pos.line, column |-> r.pos.column,
                     tokens |-> Append(tokenizer.tokens, MapImports(r.token)),
                     result |-> "running"]
    /\ UNCHANGED <<alloc, widgets, contexts, calls, last, cp, sh, lock, threads,
                   parser>>

NextTokenizer == TokenizeStep

SpecTokenizer == InitTokenizer /\ [][NextTokenizer]_vars


\* What may be skipped in front of a token: white space, and comments that
\* start with the two characters // and run to the end of the line.
RECURSIVE SkipWhitespaceAndComments(_)
SkipWhitespaceAndComments(pos) ==
    IF pos.chars = <<>> THEN pos
    ELSE IF Head(pos.chars) \in Whitespace
    THEN SkipWhitespaceAndComments(
             [chars |-> Tail(pos.chars),
              line |-> IF Head(pos.chars) = "\n" THEN pos.line + 1 ELSE pos.line,
              column |-> IF Head(pos.chars) = "\n" THEN 1 ELSE pos.column + 1])
    ELSE IF Len(pos.chars) >= 2 /\ pos.chars[1] = "/" /\ pos.chars[2] = "/"
    THEN LET n == ClosingQuote(pos.chars, "\n")
         IN  IF n = 0 THEN [chars |-> <<>>, line |-> pos.line,
                            column |-> pos.column + Len(pos.chars)]
             ELSE SkipWhitespaceAndComments(
                      [chars |-> Drop(pos.chars, n), line |-> pos.line + 1,
                       column |-> 1])
    ELSE pos

\* A character no token starts with.
StartsNothing(c) ==
    c \notin Whitespace \cup IdentifierStart \cup Quote \cup NumberStart
             \cup {"#"} \cup DOMAIN Punctuation

\* C20: tokenize skips only white space and comments that start with // and
\* run to the end of the line: a token starts at the first character after
\* them, and the text ends well when nothing comes after them.  A character
\* there that is not white space, not the start of such a comment, not the
\* start of an identifier, quoted string, number or hex color and not one
\* of $ + ! { } : ; % makes tokenize return UnexpectedCharacter with that
\* character and its position; no other character does.
C20_LexerCharacterClasses ==
    [][ tokenizer.result = "running" =>
          LET q == SkipWhitespaceAndComments(
                       [chars |-> tokenizer.chars, line |-> tokenizer.line,
                        column |-> tokenizer.column])
              unexpected == tokenizer'.result = "err"
                            /\ tokenizer'.err.kind = "UnexpectedCharacter"
          IN  /\ q.chars = <<>> => tokenizer'.result = "ok"
              /\ (q.chars # <<>> /\ StartsNothing(Head(q.chars))) =>
                     /\ unexpected
                     /\ tokenizer'.err =
                            UnexpectedCharacter(Head(q.chars),
                                TokenPosition(q.line, q.column, 1))
              /\ (q.chars # <<>> /\ ~StartsNothing(Head(q.chars))) =>
                     /\ ~unexpected
                     /\ tokenizer'.result = "running" =>
                            LET t == tokenizer'.tokens[Len(tokenizer'.tokens)]
                            IN  /\ t.position.line = q.line
                                /\ t.position.column = q.column ]_vars


-----------------------------------------------------------------------------
(* build_ast, one top-level statement at a time, on token lists: correct   *)
(* modules, the same with one token replaced or with the end cut off, and  *)
(* all short lists.                                                        *)

MaxShortTokens == 2

TokenTypes == DOMAIN TypeName

\* The k-th token of a list, of the given type, as tokenize makes it.
TokenOfType(type, k) ==
    Token(type,
          CASE type \in {"Identifier", "StringLiteral"} -> ValueString(<<"a">>)
            [] type = "NumberLiteral" ->
                   ValueNumber([whole |-> <<"1">>, frac |-> <<>>])
            [] type = "ColorLiteral" -> ValueColor(Srgba(255, 0, 0, 255))
            [] type = "BooleanLiteral" -> ValueBoolean(TRUE)
            [] OTHER -> ValueNone,
          TokenPosition(1, k, 1))

TokensOf(types) == [k \in DOMAIN types |-> TokenOfType(types[k], k)]

\* import "a";   var a: 1px;   var a: $a;   var a: true; import "a";
\* style a +a !a { a: 1%; with a { } }
\* layout a { +a; a: "a"; with a { a: #f00; } }
CorrectLists ==
    { <<"ImportKeyword", "StringLiteral", "EndOfStatement">>,
      <<"VarKeyword", "Identifier", "PropertyValue", "NumberLiteral",
        "PxKeyword", "EndOfStatement">>,
      <<"VarKeyword", "Identifier", "PropertyValue", "Variable",
        "Identifier", "EndOfStatement">>,
      <<"VarKeyword", "Identifier", "PropertyValue", "BooleanLiteral",
        "EndOfStatement", "ImportKeyword", "StringLiteral", "EndOfStatement">>,
      <<"StyleKeyword", "Identifier", "WithClass", "Identifier",
        "WithoutClass", "Identifier", "BeginProperties", "Identifier",
        "PropertyValue", "NumberLiteral", "Percent", "EndOfStatement",
        "WithKeyword", "Identifier", "BeginProperties", "EndProperties",
        "EndProperties">>,
      <<"LayoutKeyword", "Identifier", "BeginProperties", "WithClass",
        "Identifier", "EndOfStatement", "Identifier", "PropertyValue",
        "StringLiteral", "EndOfStatement", "WithKeyword", "Identifier",
        "BeginProperties", "Identifier", "PropertyValue", "ColorLiteral",
        "EndOfStatement", "EndProperties", "EndProperties">> }

RECURSIVE TypesOfLen(_)
TypesOfLen(n) ==
    IF n = 0 THEN {<<>>}
    ELSE { Append(s, t) : s \in TypesOfLen(n - 1), t \in TokenTypes }

\* The token lists handed to build_ast, by the types of their tokens.
TokenLists ==
    CorrectLists
    \cup UNION { { [c EXCEPT ![k] = t] : k \in DOMAIN c, t \in TokenTypes } :
                 c \in CorrectLists }
    \cup UNION { { SubSeq(c, 1, n) : n \in 0..Len(c) } : c \in CorrectLists }
    \cup UNION { TypesOfLen(n) : n \in 0..MaxShortTokens }

\* build_ast(tokens), before the first turn of the loop of parse_root
InitParser ==
    /\ alloc = NewAllocator
    /\ widgets = EmptyMap
    /\ contexts = EmptyMap
    /\ calls = 0
    /\ last = NoCall
    /\ cp = <<>>
    /\ sh = <<>>
    /\ lock = "none"
    /\ threads = Idle
    /\ tokenizer = NoTokenizer
    /\ \E types \in TokenLists :
           parser = [tokens |-> TokensOf(types), next |-> 1,
                     file_node |-> ModuleDefault, result |-> "running"]

\* while let Some(next) = tokens.peek() { .. }: one turn of the loop of
\* parse_root, or its end with Ok(file_node), or the error of the turn.
ParseRootStep ==
    /\ parser.result = "running"
    /\ IF parser.next > Len(parser.tokens)
       THEN parser' = [parser EXCEPT !.result = "ok"]
       ELSE \E r \in {ParseRootTurn(parser.tokens, parser.next, parser.file_node)} :
               parser' = IF r.ok
                         THEN [parser EXCEPT !.next = r.next, !.file_node = r.value]
                         ELSE [tokens |-> parser.tokens, next |-> r.next,
                               result |-> "err", err |-> r.err]
    /\ UNCHANGED <<alloc, widgets, contexts, calls, last, cp, sh, lock, threads,
                   tokenizer>>

NextParser == ParseRootStep

SpecParser == InitParser /\ [][NextParser]_vars

\* The module holds every top-level statement of the token list: as many
\* nodes of a kind as the list has of that kind's keyword.
Complete(file_node, tokens) ==
    /\ Len(file_node.imports) = Count(tokens, LAMBDA t : t.token_type = "ImportKeyword")
    /\ Len(file_node.variables) = Count(tokens, LAMBDA t : t.token_type = "VarKeyword")
    /\ Len(file_node.styles) = Count(tokens, LAMBDA t : t.token_type = "StyleKeyword")
    /\ Len(file_node.layouts) = Count(tokens, LAMBDA t : t.token_type = "LayoutKeyword")

\* The place of the token an error is about; the end of the list for
\* EndOfStream.  The k-th token of a list is at column k.
Offending(tokens, err) ==
    IF err.kind = "EndOfStream" THEN Len(tokens) + 1 ELSE err.position.column

\* C19: build_ast returns either a complete module or exactly one error
\* and no module.  The error is about the first token that does not fit:
\* the tokens before it alone give a module or run out inside a statement,
\* the tokens up to it give the same error whatever follows, every token
\* before it has been consumed and no token after it.
C19_ParserFailFast ==
    /\ parser.result = "ok" =>
           /\ DOMAIN parser = {"tokens", "next", "file_node", "result"}
           /\ parser.next = Len(parser.tokens) + 1
           /\ Complete(parser.file_node, parser.tokens)
    /\ parser.result = "err" =>
           /\ DOMAIN parser = {"tokens", "next", "result", "err"}
           /\ parser.err.kind \in {"UnexpectedToken", "EndOfStream"}
           /\ LET k == Offending(parser.tokens, parser.err)
                  before == BuildAst(SubSeq(parser.tokens, 1, k - 1))
                  upto == BuildAst(SubSeq(parser.tokens, 1, k))
              IN  /\ k \in 1..(Len(parser.tokens) + 1)
                  /\ parser.next \in {k, k + 1}
                  /\ parser.next <= Len(parser.tokens) + 1
                  /\ before.ok \/ before.err = EndOfStream
                  /\ k <= Len(parser.tokens) =>
                         /\ ~upto.ok
                         /\ upto.err = parser.err
                         /\ parser.err.found =
                                TypeName[parser.tokens[k].token_type]

\* A variable declaration has been parsed, the import after it has a token
\* that does not fit, and a token after that one is left unconsumed.
C19_Witness ==
    /\ parser.result = "err"
    /\ parser.err.kind = "UnexpectedToken"
    /\ parser.tokens[1].token_type = "VarKeyword"
    /\ parser.err.position.column = 7
    /\ parser.tokens[6].token_type = "ImportKeyword"
    /\ Len(parser.tokens) = 8
    /\ parser.next = 8


\* The number text at the head of the characters: an optional leading '-'
\* and the longest run of digits and points after it.
NumberRun(chars) ==
    IF Head(chars) = "-"
    THEN SubSeq(chars, 1, 1 + NextIf(Tail(chars), DigitChar))
    ELSE SubSeq(chars, 1, NextIf(chars, DigitChar))

\* The text without its leading '-'.
Unsigned(run) == IF run # <<>> /\ Head(run) = "-" THEN Tail(run) ELSE run

\* C21: a maximal run of an optional leading '-' followed by digits and
\* points is tokenized as one NumberLiteral whose value is that text parsed
\* as a double (a run with a leading '-' being a number below or equal to
\* zero), and a run that is not a well-formed number yields
\* InvalidNumberFormat.
C21_LexerNumbers ==
    [][ (/\ tokenizer.result = "running"
         /\ tokenizer.chars # <<>>
         /\ Head(tokenizer.chars) \in NumberStart) =>
          LET run == NumberRun(tokenizer.chars)
              parsed == ParseF64(Unsigned(run))
          IN  IF parsed.ok
              THEN /\ tokenizer'.result = "running"
                   /\ tokenizer'.chars = Drop(tokenizer.chars, Len(run))
                   /\ LET t == tokenizer'.tokens[Len(tokenizer'.tokens)]
                      IN  /\ t.token_type = "NumberLiteral"
                          /\ t.value = ValueNumber(parsed.number)
                          /\ t.position.length = Len(run)
              ELSE /\ tokenizer'.result = "err"
                   /\ tokenizer'.err.kind = "InvalidNumberFormat" ]_vars


-----------------------------------------------------------------------------
(* tokenize and build_ast as running loops: either a text is tokenized or  *)
(* a token list is parsed, and a loop that can take a turn takes it.       *)

InitParse == InitTokenizer \/ InitParser

NextParse == TokenizeStep \/ ParseRootStep

SpecParse ==
    /\ InitParse
    /\ [][NextParse]_vars
    /\ WF_vars(TokenizeStep)
    /\ WF_vars(ParseRootStep)

\* The variants of TokenizeError and of NekoMaidParseError.
TokenizeErrorKinds ==
    {"UnexpectedCharacter", "UnexpectedEndOfInput", "InvalidNumberFormat",
     "InvalidColorFormat"}
ParseErrorKinds == {"UnexpectedToken", "EndOfStream", "InvalidTokenValue"}

\* The function has returned.
Returned(run) == run.result \in {"ok", "err"}

\* C22: tokenize and build_ast terminate on every finite input and return a
\* value or an error of their error type: every turn of their loops either
\* returns or consumes input (characters of the text, tokens of the list),
\* a returned Ok has consumed the whole input, a returned Err carries one
\* of the typed errors, and every run returns.
C22_Termination ==
    /\ [][ /\ tokenizer.result = "running" =>
                \/ Returned(tokenizer')
                \/ Len(tokenizer'.chars) < Len(tokenizer.chars)
           /\ parser.result = "running" =>
                \/ Returned(parser')
                \/ /\ parser'.next > parser.next
                   /\ parser'.next <= Len(parser.tokens) + 1 ]_vars
    /\ [](/\ tokenizer.result = "ok" => tokenizer.chars = <<>>
          /\ tokenizer.result = "err" => tokenizer.err.kind \in TokenizeErrorKinds
          /\ parser.result = "ok" => parser.next = Len(parser.tokens) + 1
          /\ parser.result = "err" => parser.err.kind \in ParseErrorKinds)
    /\ <>(Returned(tokenizer) \/ Returned(parser))

\* build_ast has returned a module after three turns of its loop: two
\* statements and the end of the list.
C22_Witness ==
    /\ parser.result = "ok"
    /\ Len(parser.file_node.variables) = 1
    /\ Len(parser.file_node.imports) = 1


\* The number of characters in front of the next token: white space and
\* comments up to the end of their line.
RECURSIVE Skipped(_)
Skipped(chars) ==
    IF chars = <<>> THEN 0
    ELSE IF Head(chars) \in Whitespace THEN 1 + Skipped(Tail(chars))
    ELSE IF Head(chars) = "/"
    THEN LET n == ClosingQuote(chars, "\n")
         IN  IF n = 0 THEN Len(chars) ELSE n + Skipped(Drop(chars, n))
    ELSE 0

\* The line feeds among the first n characters of a text.
LineFeeds(text, n) == { k \in 1..n : text[k] = "\n" }

\* The line and the column of the character that follows the first n
\* characters of a text.
LineAt(text, n) == 1 + Cardinality(LineFeeds(text, n))
ColumnAt(text, n) ==
    1 + n - (IF LineFeeds(text, n) = {} THEN 0
             ELSE CHOOSE k \in LineFeeds(text, n) :
                      \A j \in LineFeeds(text, n) : j <= k)

\* C23: the position of a token is that of its source text: its line is one
\* more than the number of line feeds in front of its first character, its
\* column one more than the number of characters between the start of that
\* line and its first character, its length the number of characters of its
\* source text, whatever comes in front of it (white space, comments,
\* quoted strings, other tokens).
C23_TokenPositions ==
    [][ (tokenizer.result = "running" /\ tokenizer'.result = "running") =>
          LET text  == tokenizer.text
              start == Len(text) - Len(tokenizer.chars) + Skipped(tokenizer.chars)
              end   == Len(text) - Len(tokenizer'.chars)
              t     == tokenizer'.tokens[Len(tokenizer'.tokens)]
          IN  t.position = TokenPosition(LineAt(text, start),
                                         ColumnAt(text, start),
                                         end - start) ]_vars


-----------------------------------------------------------------------------
(* The inline style of the elements the layout loop builds.                *)

\* The element of a kept layout node, and every element below it: with
\* declared properties its first style is the inline style, whose selector
\* hierarchy follows the class path widget by widget without classes and
\* matches the class path exactly; behind it, or alone, stands the default
\* style of the widget, and there is no other style (the context is empty).
RECURSIVE InlineOfItsOwn(_, _)
InlineOfItsOwn(node, element) ==
    /\ Len(element.styles) = IF node.properties # <<>> THEN 2 ELSE 1
    /\ element.styles[Len(element.styles)].selector = <<ClassFree(element.widget)>>
    /\ node.properties # <<>> =>
          LET selector == element.styles[1].selector
          IN  /\ Len(selector) = Len(element.classpath)
              /\ \A d \in DOMAIN selector :
                    /\ selector[d].widget = element.classpath[d].widget
                    /\ selector[d].with_classes = {}
                    /\ selector[d].without_classes = {}
              /\ Matches(element.classpath, selector)
    /\ Len(element.children) = Len(Kept(alloc, node.children))
    /\ \A k \in DOMAIN element.children :
           InlineOfItsOwn(Kept(alloc, node.children)[k], element.children[k])

\* C24: the selector hierarchy of an element's inline style has the depth
\* of the element's class path, the widget of the class path at every
\* position and empty with and without sets, and it matches the element's
\* own class path exactly whatever classes the path declares; the inline
\* style is added to that element only: not to the module's context, not to
\* an element whose layout node declares no properties.
C24_InlineStyleSelector ==
    last.op = "layouts" =>
        /\ contexts["m"] = NewContext
        /\ Len(last.elements) = Len(Kept(alloc, last.layouts))
        /\ \A k \in DOMAIN last.elements :
               InlineOfItsOwn(Kept(alloc, last.layouts)[k], last.elements[k])

\* An element with a class and an inline style, below a parent with a class
\* and no inline style.
C24_Witness ==
    /\ last.op = "layouts"
    /\ \E i \in DOMAIN last.elements : \E j \in DOMAIN last.elements[i].children :
          LET parent == last.elements[i]
              child  == parent.children[j]
          IN  /\ parent.classpath[1].classes # {}
              /\ Len(parent.styles) = 1
              /\ child.classpath[2].classes # {}
              /\ Len(child.styles) = 2
              /\ Len(child.styles[1].selector) = 2
              /\ DOMAIN child.styles[1].properties # {}


-----------------------------------------------------------------------------
(* parse_value on its own, on every list of up to MaxValueTokens tokens.   *)

MaxValueTokens == 3

\* The token iterator handed to parse_value.
InitValue ==
    /\ alloc = NewAllocator
    /\ widgets = EmptyMap
    /\ contexts = EmptyMap
    /\ calls = 0
    /\ last = NoCall
    /\ cp = <<>>
    /\ sh = <<>>
    /\ lock = "none"
    /\ threads = Idle
    /\ tokenizer = NoTokenizer
    /\ \E types \in UNION { TypesOfLen(n) : n \in 0..MaxValueTokens } :
           parser = [tokens |-> TokensOf(types), next |-> 1, result |-> "running"]

\* parse_value(tokens)
ParseValueCall ==
    /\ parser.result = "running"
    /\ \E r \in {ParseValue(parser.tokens, parser.next)} :
           parser' = IF r.ok
                     THEN [tokens |-> parser.tokens, next |-> r.next,
                           result |-> "ok", value |-> r.value]
                     ELSE [tokens |-> parser.tokens, next |-> r.next,
                           result |-> "err", err |-> r.err]
    /\ UNCHANGED <<alloc, widgets, contexts, calls, last, cp, sh, lock, threads,
                   tokenizer>>

NextValue == ParseValueCall

SpecValue == InitValue /\ [][NextValue]_vars

\* The type of the k-th token of a list, "" behind its end.
TypeAt(tokens, k) == IF k \in DOMAIN tokens THEN tokens[k].token_type ELSE ""

\* The number of tokens a value takes, by its first one or two tokens; 0
\* when they start no value.
ValueTokens(tokens) ==
    CASE TypeAt(tokens, 1) \in {"StringLiteral", "Identifier", "BooleanLiteral",
                                "ColorLiteral"} -> 1
      [] TypeAt(tokens, 1) = "NumberLiteral" ->
             IF TypeAt(tokens, 2) \in {"PxKeyword", "Percent"} THEN 2 ELSE 1
      [] TypeAt(tokens, 1) = "Variable" /\ TypeAt(tokens, 2) = "Identifier" -> 2
      [] OTHER -> 0

\* The value of the value's tokens.
ValueOf(tokens) ==
    CASE TypeAt(tokens, 1) \in {"StringLiteral", "Identifier"} ->
             [t |-> "String", v |-> tokens[1].value.v]
      [] TypeAt(tokens, 1) = "NumberLiteral" ->
             [t |-> CASE TypeAt(tokens, 2) = "PxKeyword" -> "Pixels"
                      [] TypeAt(tokens, 2) = "Percent" -> "Percent"
                      [] OTHER -> "Number",
              v |-> tokens[1].value.v]
      [] TypeAt(tokens, 1) = "BooleanLiteral" ->
             [t |-> "Bool", v |-> tokens[1].value.v]
      [] TypeAt(tokens, 1) = "ColorLiteral" ->
             [t |-> "Color", v |-> tokens[1].value.v]
      [] TypeAt(tokens, 1) = "Variable" ->
             [t |-> "Variable", name |-> tokens[2].value.v,
              position |-> tokens[1].position]

\* C25: parse_value maps a string or an identifier to String, a number
\* followed by `px` to Pixels, a number followed by `%` to Percent, any other
\* number to Number, a boolean to Bool, a color to Color and `$` followed by
\* an identifier to a Variable reference of that name; it takes the tokens
\* of the value and no more, so that the iterator stands at the token behind
\* the value; and a first token that starts no value gives UnexpectedToken
\* for that token.
C25_PropertyValueGrammar ==
    (parser.result \in {"ok", "err"} /\ parser.tokens # <<>>) =>
        LET tokens == parser.tokens
        IN  IF ValueTokens(tokens) > 0
            THEN /\ parser.result = "ok"
                 /\ parser.value = ValueOf(tokens)
                 /\ parser.next = ValueTokens(tokens) + 1
            ELSE IF TypeAt(tokens, 1) = "Variable"
            THEN parser.result = "err"
            ELSE /\ parser.result = "err"
                 /\ parser.err.kind = "UnexpectedToken"
                 /\ parser.err.found = TypeName[TypeAt(tokens, 1)]
                 /\ parser.err.position = tokens[1].position
                 /\ parser.next = 2

\* A number followed by `px` and by the end of the statement: the value is
\* Pixels and the iterator stands at the `;`.
C25_Witness ==
    /\ parser.result = "ok"
    /\ Len(parser.tokens) = 3
    /\ parser.tokens[1].token_type = "NumberLiteral"
    /\ parser.tokens[2].token_type = "PxKeyword"
    /\ parser.tokens[3].token_type = "EndOfStatement"
    /\ parser.value.t = "Pixels"
    /\ parser.next = 3


-----------------------------------------------------------------------------
(* From source to elements: parse_neko_ui(source).unwrap() followed by     *)
(* vm.resolve_module(name, module), as vm/test.rs 328-333 does it.  The    *)
(* parser's module is read by the VM as it stands; its names are turned    *)
(* from character sequences into strings, and the position an error        *)
(* carries is looked up in the node the error names.                       *)

MaxSourceCalls == 2

MaxSourceItems == 4

\* A name as a string.
RECURSIVE NameOf(_)
NameOf(chars) == IF chars = <<>> THEN "" ELSE Head(chars) \o NameOf(Tail(chars))

\* PropertyNodeValue, PropertyNode, StyleNode, LayoutNode and ModuleNode as
\* resolve_module reads them.
LowerValue(value) ==
    IF value.t = "Variable" THEN VarRef(NameOf(value.name))
    ELSE [t |-> value.t, v |-> value.v]
LowerProperty(property) ==
    PropertyNode(NameOf(property.name), LowerValue(property.value))
RECURSIVE LowerStyle(_)
LowerStyle(node) ==
    StyleNode(NameOf(node.selector.widget),
              [k \in DOMAIN node.selector.parts |->
                  [part |-> node.selector.parts[k].part,
                   class |-> NameOf(node.selector.parts[k].class)]],
              [k \in DOMAIN node.properties |-> LowerProperty(node.properties[k])],
              [k \in DOMAIN node.children |-> LowerStyle(node.children[k])])
RECURSIVE LowerLayout(_)
LowerLayout(node) ==
    LayoutNode(NameOf(node.widget),
               [k \in DOMAIN node.classes |-> NameOf(node.classes[k])],
               [k \in DOMAIN node.properties |-> LowerProperty(node.properties[k])],
               [k \in DOMAIN node.children |-> LowerLayout(node.children[k])])
LowerModule(module) ==
    ModuleNode([k \in DOMAIN module.imports |-> NameOf(module.imports[k].path)],
               [k \in DOMAIN module.variables |-> LowerProperty(module.variables[k])],
               [k \in DOMAIN module.styles |-> LowerStyle(module.styles[k])],
               [k \in DOMAIN module.layouts |-> LowerLayout(module.layouts[k])])

\* The position field of the style or layout node, of the property or of
\* the variable reference that a path below a node leads to.
RECURSIVE NodePositionAt(_, _, _)
NodePositionAt(kind, node, path) ==
    IF path = <<>>
    THEN IF kind = 2 THEN node.selector.position ELSE node.position
    ELSE IF path[1] = 0
    THEN IF Len(path) = 2 THEN node.properties[path[2]].position
         ELSE node.properties[path[2]].value.position
    ELSE NodePositionAt(kind, node.children[path[1]], Tail(path))

\* The position an error reports: that of the import, of the variable
\* reference, or of the node or property it names.
PositionAt(module, path) ==
    CASE path[1] = 0 -> module.imports[path[2]].position
      [] path[1] = 1 -> module.variables[path[2]].value.position
      [] path[1] = 2 -> NodePositionAt(2, module.styles[path[2]], Tail(Tail(path)))
      [] path[1] = 3 -> NodePositionAt(3, module.layouts[path[2]], Tail(Tail(path)))

Positioned(errors, module) ==
    [k \in DOMAIN errors |-> [errors[k] EXCEPT !.pos = PositionAt(module, @)]]

\* parse_neko_ui(..).unwrap() and resolve_module: the allocator, the module
\* table and the result afterwards.
ResolveSource(al, name, tokens) ==
    Then(BuildAst(tokens), LAMBDA p :
    Then(ResolveModule(al, name, LowerModule(p.value)), LAMBDA r :
        [al |-> r.al, contexts |-> r.contexts, module |-> p.value,
         ok |-> r.ok, elements |-> r.elements,
         errors |-> Positioned(r.errors, p.value)]))

\* The top-level items the sources are made of.
\*   import:  import "A";                  red:   var a: #f00;
\*   blue:    var a: #00f;                 style: style button { color: $a; }
\*   layout:  layout button { color: $a; }
SourceItems == {"import", "red", "blue", "style", "layout"}

NameA      == <<"a">>
NameButton == <<"b", "u", "t", "t", "o", "n">>
NameColor  == <<"c", "o", "l", "o", "r">>

\* The tokens of `button { color: $a; }`.
ButtonBlock ==
    << <<"Identifier", ValueString(NameButton)>>, <<"BeginProperties", ValueNone>>,
       <<"Identifier", ValueString(NameColor)>>, <<"PropertyValue", ValueNone>>,
       <<"Variable", ValueNone>>, <<"Identifier", ValueString(NameA)>>,
       <<"EndOfStatement", ValueNone>>, <<"EndProperties", ValueNone>> >>

\* The tokens of `var a: <color>;`.
VarTokens(color) ==
    << <<"VarKeyword", ValueNone>>, <<"Identifier", ValueString(NameA)>>,
       <<"PropertyValue", ValueNone>>, <<"ColorLiteral", ValueColor(color)>>,
       <<"EndOfStatement", ValueNone>> >>

ItemTokens(item) ==
    CASE item = "import" ->
            << <<"ImportKeyword", ValueNone>>, <<"StringLiteral", ValueString(<<"A">>)>>,
               <<"EndOfStatement", ValueNone>> >>
      [] item = "red"    -> VarTokens(Srgba(255, 0, 0, 255))
      [] item = "blue"   -> VarTokens(Srgba(0, 0, 255, 255))
      [] item = "style"  -> << <<"StyleKeyword", ValueNone>> >> \o ButtonBlock
      [] item = "layout" -> << <<"LayoutKeyword", ValueNone>> >> \o ButtonBlock

\* The tokens of a source: those of its items one after the other, each at
\* the place it has in the text.
RECURSIVE SourceTokens(_)
SourceTokens(source) ==
    IF source = <<>> THEN <<>>
    ELSE ItemTokens(Head(source)) \o SourceTokens(Tail(source))

Placed(pairs) ==
    [k \in DOMAIN pairs |-> Token(pairs[k][1], pairs[k][2], TokenPosition(1, k, 1))]

\* The sources: every arrangement of every choice of up to MaxSourceItems
\* items.
Sources ==
    UNION { { s \in [1..n -> SourceItems] :
                \A i, j \in 1..n : i # j => s[i] # s[j] } :
            n \in 0..MaxSourceItems }

\* let module = parse_neko_ui(source).unwrap();
\* vm.resolve_module(name, module)
ParseAndResolve(name, source) ==
    /\ calls < MaxSourceCalls
    /\ BuildAst(Placed(SourceTokens(source))).ok
    /\ \E r \in {ResolveSource(alloc, name, Placed(SourceTokens(source)))} :
           /\ alloc' = r.al
           /\ contexts' = r.contexts
           /\ last' = [op |-> "source", name |-> name, source |-> source,
                       module |-> r.module, ok |-> r.ok,
                       elements |-> r.elements, errors |-> r.errors]
    /\ calls' = calls + 1
    /\ UNCHANGED <<widgets, cp, sh, lock, threads, tokenizer, parser>>

NextSource == \E source \in Sources : ParseAndResolve("A", source)

SpecSource == Init /\ [][NextSource]_vars


\* The kind of a top-level item, and the module node it stands for.
ItemKind(item) ==
    CASE item = "import" -> "import"
      [] item \in {"red", "blue"} -> "variable"
      [] item = "style" -> "style"
      [] item = "layout" -> "layout"
ItemColor(item) ==
    Color(IF item = "red" THEN Srgba(255, 0, 0, 255) ELSE Srgba(0, 0, 255, 255))
ItemNode(item) ==
    CASE item = "import" -> "A"
      [] item \in {"red", "blue"} -> PropertyNode("a", ItemColor(item))
      [] item = "style" ->
             StyleNode("button", <<>>, <<PropertyNode("color", VarRef("a"))>>, <<>>)
      [] item = "layout" ->
             LayoutNode("button", <<>>, <<PropertyNode("color", VarRef("a"))>>, <<>>)

\* The items of one kind, in source order.
OfKind(source, kind) == SelectSeq(source, LAMBDA item : ItemKind(item) = kind)
NodesOf(items) == [k \in DOMAIN items |-> ItemNode(items[k])]

\* The same items with the kinds one after the other: imports, variables,
\* styles, layouts.
Canonical(source) ==
    OfKind(source, "import") \o OfKind(source, "variable")
        \o OfKind(source, "style") \o OfKind(source, "layout")

\* Errors without their source positions.
Unplaced(errors) == [k \in DOMAIN errors |-> [errors[k] EXCEPT !.pos = <<>>]]

\* The value of `a` a source declares last.
LastDeclared(source) ==
    ItemColor(OfKind(source, "variable")[Len(OfKind(source, "variable"))])

\* What the parser and resolve_module make of a source, apart from the
\* errors.  post is the recorded call, al and ctxs the allocator and the
\* module table after it, c the outcome for the source with the kinds one
\* after the other.  The module holds the items grouped by kind in source
\* order; the allocator, the module table, the verdict and the elements are
\* those of c; and where the source declares `a` and imports nothing, it
\* resolves, and the `color: $a` of its style and of its layout, wherever
\* they stand, is a's last declared value.
SourceCase(post, al, ctxs, c) ==
    /\ LowerModule(post.module) =
          ModuleNode(NodesOf(OfKind(post.source, "import")),
                     NodesOf(OfKind(post.source, "variable")),
                     NodesOf(OfKind(post.source, "style")),
                     NodesOf(OfKind(post.source, "layout")))
    /\ al = c.al
    /\ ctxs = c.contexts
    /\ post.ok = c.ok
    /\ post.elements = c.elements
    /\ (OfKind(post.source, "variable") # <<>> /\ OfKind(post.source, "import") = <<>>) =>
          /\ post.ok
          /\ "style" \in Range(post.source) =>
                \E i \in DOMAIN ctxs[post.name].styles :
                   ctxs[post.name].styles[i].properties[al.properties["color"]]
                       = LastDeclared(post.source)
          /\ "layout" \in Range(post.source) =>
                post.elements[1].styles[1].properties[al.properties["color"]]
                    = LastDeclared(post.source)

\* C26 as stated: the sources that differ only in the interleaving of their
\* top-level items of different kinds resolve to the same result, the
\* errors of a failed resolution included.
C26_SameResult ==
    [][ last'.op = "source" =>
          \E post \in {last'}, al \in {alloc'}, ctxs \in {contexts'} :
             \E c \in {ResolveSource(alloc, post.name,
                            Placed(SourceTokens(Canonical(post.source))))} :
                /\ SourceCase(post, al, ctxs, c)
                /\ post.errors = c.errors ]_vars

\* C26: the parser groups the top-level items by kind and keeps the source
\* order inside each kind; resolve_module processes imports, variables,
\* styles and layouts in that order; two sources that differ only in the
\* interleaving of their items of different kinds yield the same verdict,
\* the same elements, the same committed context and the same errors in the
\* same order apart from the source positions the errors carry; a style or
\* layout property that references a variable declared after it resolves
\* to the variable's value.
C26_InterleavingIndependence ==
    [][ last'.op = "source" =>
          \E post \in {last'}, al \in {alloc'}, ctxs \in {contexts'} :
             \E c \in {ResolveSource(alloc, post.name,
                            Placed(SourceTokens(Canonical(post.source))))} :
                /\ SourceCase(post, al, ctxs, c)
                /\ Unplaced(post.errors) = Unplaced(c.errors) ]_vars

\* A source with its layout first, its style second and the two
\* declarations of `a` behind them has resolved: style and element hold the
\* value declared last.
C26_Witness ==
    /\ last.op = "source"
    /\ last.ok
    /\ last.source = <<"layout", "style", "red", "blue">>
    /\ last.elements[1].styles[1].properties[alloc.properties["color"]]
           = Color(Srgba(0, 0, 255, 255))
    /\ contexts["A"].styles[1].properties[alloc.properties["color"]]
           = Color(Srgba(0, 0, 255, 255))


-----------------------------------------------------------------------------
(* Variables are bound by value (SpecVariables).                           *)

\* The value the name n has once all declarations are processed.
FinalValue(module, pre, n) ==
    ValueBefore(module, pre, n, Len(module.variables) + 1)

\* Every property of the layout node, and of the nodes below it, that
\* refers to a variable holds the variable's final value in the inline
\* style of its element.
RECURSIVE LayoutGetsFinal(_, _, _, _)
LayoutGetsFinal(node, element, module, pre) ==
    /\ \A k \in DOMAIN node.properties :
          node.properties[k].value.t = "Variable" =>
              element.styles[1].properties[alloc.properties[node.properties[k].name]]
                  = FinalValue(module, pre, node.properties[k].value.name)
    /\ \A c \in DOMAIN node.children :
          LayoutGetsFinal(node.children[c], element.children[c], module, pre)

\* C27: when the variable b is declared as `$a` and a is declared again
\* later in the module, b keeps the value a had at b's declaration (unless b
\* is itself declared again), while every style property and every layout
\* property of the module that refers to `$a` gets the value a was
\* declared with last.
C27_BoundByValue ==
    (Resolved /\ last.ok) =>
        LET m == last.module
            ctx == contexts[last.name]
        IN  /\ \A j \in DOMAIN m.variables :
                  (/\ m.variables[j].value.t = "Variable"
                   /\ \E k \in DOMAIN m.variables :
                         k > j /\ m.variables[k].name = m.variables[j].value.name
                   /\ \A k \in DOMAIN m.variables :
                         k > j => m.variables[k].name # m.variables[j].name)
                  => ctx.variables[alloc.variable[m.variables[j].name]]
                        = ValueBefore(m, last.pre, m.variables[j].value.name, j)
            /\ \A i \in DOMAIN m.styles : \A k \in DOMAIN m.styles[i].properties :
                  m.styles[i].properties[k].value.t = "Variable" =>
                      \E s \in DOMAIN ctx.styles :
                         /\ ctx.styles[s].selector =
                               <<DeclaredSelector(m.styles[i])>>
                         /\ ctx.styles[s].properties[
                                alloc.properties[m.styles[i].properties[k].name]]
                               = FinalValue(m, last.pre,
                                            m.styles[i].properties[k].value.name)
            /\ \A i \in DOMAIN m.layouts :
                  LayoutGetsFinal(m.layouts[i], last.elements[i], m, last.pre)

\* var a: #red; var b: $a; var a: #white; with a style and a layout that
\* refer to $a: b is red, the style and the element are white.
C27_Witness ==
    /\ Resolved
    /\ last.ok
    /\ last.module.variables = <<VarA("red"), VarBfromA, VarA("white")>>
    /\ last.module.styles = <<StyleButtonA>>
    /\ last.module.layouts = <<LayoutMenu>>
    /\ contexts[last.name].variables[alloc.variable["b"]] = Color("red")
    /\ contexts[last.name].variables[alloc.variable["a"]] = Color("white")
    /\ last.elements[1].children[1].styles[1].properties[alloc.properties["color"]]
           = Color("white")


-----------------------------------------------------------------------------
(* Chains of imports: the modules A, B and C are resolved one after the    *)
(* other, each importing none, one or two of A and B in either order.      *)

MaxImportCalls == 3

\* The name of the first, the second and the third module.
ImportNames == <<"A", "B", "C">>

ImportModules ==
    { ModuleNode(i, v, s, <<>>) :
        i \in {<<>>, <<"A">>, <<"B">>, <<"A", "B">>, <<"B", "A">>},
        v \in {<<>>, <<VarA("red")>>, <<VarA("white")>>},
        s \in {<<>>, <<StyleButton>>, <<StyleHover>>} }

\* vm.resolve_module(name, module) for the next name; the call before is
\* kept with the record of the call.
ImportResolve(module) ==
    /\ calls < MaxImportCalls
    /\ calls < Len(ImportNames)
    /\ \E r \in {ResolveModule(alloc, ImportNames[calls + 1], module)} :
           /\ alloc' = r.al
           /\ contexts' = r.contexts
           /\ last' = [op |-> "resolve", name |-> ImportNames[calls + 1],
                       module |-> module, pre |-> contexts, ok |-> r.ok,
                       elements |-> r.elements, errors |-> r.errors,
                       collected |-> r.collected, before |-> last]
    /\ calls' = calls + 1
    /\ UNCHANGED <<widgets, cp, sh, lock, threads, tokenizer, parser>>

NextImports == \E module \in ImportModules : ImportResolve(module)

SpecImports == Init /\ [][NextImports]_vars

\* The module declares the variable with the identifier v.
Declares(module, v) ==
    \E k \in DOMAIN module.variables : alloc.variable[module.variables[k].name] = v

\* The selector hierarchies of a style list.
SelectorsOf(styles) == { styles[k].selector : k \in DOMAIN styles }

\* The context holds everything of the other context: each of its
\* variables, and for each of its styles a style of the same selector
\* hierarchy with at least its properties.
Inherits(ctx, other) ==
    /\ DOMAIN other.variables \subseteq DOMAIN ctx.variables
    /\ \A k \in DOMAIN other.styles :
          \E j \in DOMAIN ctx.styles :
             /\ ctx.styles[j].selector = other.styles[k].selector
             /\ DOMAIN other.styles[k].properties
                    \subseteq DOMAIN ctx.styles[j].properties

\* C28: the context committed for a module holds everything merged from the
\* contexts of its imports; if C imports B and B imported A, C holds A's
\* variables and styles without importing A itself (with A's value for a
\* variable that neither B nor C declares); two imports are merged in import
\* order: for a variable the module does not declare the value of the later
\* import stands, and the styles of the earlier import keep their places in
\* front of every style that the later import adds.
C28_ImportsTransitiveOrdered ==
    (Resolved /\ last.ok) =>
        LET m == last.module
            ctx == contexts[last.name]
        IN  /\ \A i \in DOMAIN m.imports : Inherits(ctx, last.pre[m.imports[i]])
            /\ (/\ last.name = "C"
                /\ m.imports = <<"B">>
                /\ last.before.ok
                /\ last.before.module.imports = <<"A">>) =>
                  /\ Inherits(ctx, contexts["A"])
                  /\ \A v \in DOMAIN contexts["A"].variables :
                        (~Declares(m, v) /\ ~Declares(last.before.module, v)) =>
                            ctx.variables[v] = contexts["A"].variables[v]
            /\ Len(m.imports) = 2 =>
                  LET first  == last.pre[m.imports[1]]
                      second == last.pre[m.imports[2]]
                  IN  /\ \A v \in DOMAIN second.variables :
                            ~Declares(m, v) => ctx.variables[v] = second.variables[v]
                      /\ \A v \in DOMAIN first.variables \ DOMAIN second.variables :
                            ~Declares(m, v) => ctx.variables[v] = first.variables[v]
                      /\ \A k \in DOMAIN first.styles :
                            ctx.styles[k].selector = first.styles[k].selector
                      /\ \A j \in DOMAIN ctx.styles :
                            (/\ ctx.styles[j].selector \in SelectorsOf(second.styles)
                             /\ ctx.styles[j].selector \notin SelectorsOf(first.styles))
                            => j > Len(first.styles)

\* C imports B alone, B imported A alone and declares nothing, A declares a
\* and a style: C holds A's variable and A's style.
C28_Witness ==
    /\ Resolved
    /\ last.ok
    /\ last.name = "C"
    /\ last.module = ModuleNode(<<"B">>, <<>>, <<>>, <<>>)
    /\ last.before.ok
    /\ last.before.module = ModuleNode(<<"A">>, <<>>, <<StyleHover>>, <<>>)
    /\ last.before.before.module = ModuleNode(<<>>, <<VarA("red")>>, <<StyleButton>>, <<>>)
    /\ contexts["C"].variables[alloc.variable["a"]] = Color("red")
    /\ Len(contexts["C"].styles) = 2
    /\ contexts["C"].styles[1] = contexts["A"].styles[1]

\* A module that imports A and B, which give `a` different values and
\* different styles: B's value stands and A's style comes first.
C28_OrderWitness ==
    /\ Resolved
    /\ last.ok
    /\ last.module.imports = <<"A", "B">>
    /\ last.module.variables = <<>>
    /\ last.pre["A"].variables # last.pre["B"].variables
    /\ contexts[last.name].variables = last.pre["B"].variables
    /\ Len(last.pre["A"].styles) = 1
    /\ Len(last.pre["B"].styles) = 1
    /\ Len(contexts[last.name].styles) = 2
    /\ contexts[last.name].styles[1] = last.pre["A"].styles[1]
    /\ contexts[last.name].styles[2] = last.pre["B"].styles[1]


-----------------------------------------------------------------------------
(* Exact matching against partial matching (SpecMatch).                    *)

\* No selector of the hierarchy names a class.
ClassFreeHierarchy(hierarchy) ==
    \A d \in DOMAIN hierarchy :
        hierarchy[d].with_classes = {} /\ hierarchy[d].without_classes = {}

\* C29: for every class path cp and selector hierarchy sh, matches(cp, sh)
\* implies partial_matches(cp, sh); both are false when sh is deeper than
\* cp; and when every selector of sh has empty with and without sets the
\* two results are equal.
C29_ExactRefinesPartial ==
    last.op = "match" =>
        /\ last.matches => last.partial
        /\ Len(sh) > Len(cp) => (~last.matches /\ ~last.partial)
        /\ ClassFreeHierarchy(sh) => (last.matches = last.partial)

\* A class path with classes matched exactly and partially by a class-free
\* hierarchy of two selectors.
C29_Witness ==
    /\ last.op = "match"
    /\ Len(sh) = 2
    /\ ClassFreeHierarchy(sh)
    /\ \A d \in DOMAIN cp : cp[d].classes # {}
    /\ last.matches
    /\ last.partial

\* A hierarchy deeper than the class path: neither match holds.
C29_DeeperWitness ==
    /\ last.op = "match"
    /\ Len(sh) > Len(cp)
    /\ ~last.matches
    /\ ~last.partial


-----------------------------------------------------------------------------
(* vm/style.rs : the checks build_styles_recursive makes on each level:    *)
(* the widget of the level's selector, then each property against that     *)
(* widget's definition.                                                    *)

\* The property lists of a level: none; width: 1px; bad: 1px, width: 2px;
\* color: red, bad: 1px, width: 3px.
ValidateProperties ==
    { <<>>,
      <<PropertyNode("width", Px("1"))>>,
      <<PropertyNode("bad", Px("1")), PropertyNode("width", Px("2"))>>,
      <<PropertyNode("color", Color("red")), PropertyNode("bad", Px("1")),
        PropertyNode("width", Px("3"))>> }

ValidateWidgets == {"div", "button", "blob"}

\* Levels with no nested block.
ValidateLeaves ==
    { StyleNode(w, <<>>, ps, <<>>) : w \in ValidateWidgets, ps \in ValidateProperties }

\* Levels with one nested block.
ValidateAround(widgetNames, lists, children) ==
    { StyleNode(w, <<>>, ps, <<c>>) :
        w \in widgetNames, ps \in lists, c \in children }

ValidateTrees ==
    ValidateLeaves
    \cup ValidateAround(ValidateWidgets, ValidateProperties, ValidateLeaves)
    \cup ValidateAround({"button", "blob"}, {<<>>},
            ValidateAround(ValidateWidgets, ValidateProperties,
                { StyleNode(w, <<>>, ps, <<>>) :
                    w \in ValidateWidgets,
                    ps \in {<<>>, <<PropertyNode("width", Px("1"))>>} }))

NextValidate == \E node \in ValidateTrees : Expand(node)

SpecValidate == InitExpand /\ [][NextValidate]_vars

\* The position of the level at `path` of the expanded node.
LevelPosition(path) == <<2, 1>> \o path

\* The levels build_styles_recursive visits: all levels enclosing them name
\* registered widgets.
VisitedLevels(node) ==
    { p \in PathsOf(node) :
        \A k \in 0..(Len(p) - 1) :
            Registered(NodeAt(node, SubSeq(p, 1, k)).selector.widget) }

\* The places in a property list of the properties widget w defines.
Defined(w, props) == { k \in DOMAIN props : Defines(w, props[k].name) }

\* The level at `path` names an unregistered widget: one UnknownWidget error
\* for it, no error from below it, no style through it.
UnknownLevel(node, path) ==
    LET w == NodeAt(node, path).selector.widget
    IN  /\ Count(last.errors,
                 LAMBDA e : e = UnknownWidget(w, LevelPosition(path))) = 1
        /\ \A i \in DOMAIN last.errors :
              Encloses(LevelPosition(path), last.errors[i].pos) => FALSE
        /\ \A i \in DOMAIN last.styles :
              /\ \A d \in DOMAIN last.styles[i].selector :
                    last.styles[i].selector[d].widget # alloc.widgets[w]
              /\ \A q \in PathsOf(node) :
                    (q = path \/ Encloses(path, q)) =>
                        Len(last.styles[i].selector) # Len(q) + 1
                        \/ last.styles[i].selector # ChainOf(node, q)

\* The level at `path` names a registered widget: each property that widget
\* does not define gives one InvalidProperty error and no entry of the
\* level's style; each property it defines is in the level's style with the
\* value written.
KnownLevel(node, path) ==
    LET level == NodeAt(node, path)
        w     == level.selector.widget
        props == level.properties
        ok    == Defined(w, props)
    IN  /\ \A k \in DOMAIN props \ ok :
              Count(last.errors,
                    LAMBDA e : e = InvalidProperty(props[k].name, w,
                                      LevelPosition(path) \o <<0, k>>)) = 1
        /\ \A i \in DOMAIN last.errors :
              last.errors[i].pos \in {LevelPosition(path) \o <<0, k>> : k \in ok}
                  => FALSE
        /\ props # <<>> =>
              \E i \in DOMAIN last.styles :
                  /\ last.styles[i].selector = ChainOf(node, path)
                  /\ DOMAIN last.styles[i].properties
                       = {alloc.properties[props[k].name] : k \in ok}
                  /\ \A k \in ok :
                        last.styles[i].properties[alloc.properties[props[k].name]]
                          = props[k].value

\* C30: style rule validation.  A visited level whose selector names a
\* widget with no registered definition records exactly one UnknownWidget
\* error and gives no style for itself or for any level nested inside it; a
\* property is checked against the definition of the widget of its own
\* level's selector, and one that widget does not define records
\* InvalidProperty and is left out while the level's other properties are
\* kept; no other error is recorded.
C30_StyleValidation ==
    last.op = "from_style_node" =>
        /\ \A p \in VisitedLevels(last.node) :
              IF Registered(NodeAt(last.node, p).selector.widget)
              THEN KnownLevel(last.node, p)
              ELSE UnknownLevel(last.node, p)
        /\ Len(last.styles) = Cardinality(Emitting(last.node))
        /\ Len(last.errors)
             = Cardinality({p \in VisitedLevels(last.node) :
                              ~Registered(NodeAt(last.node, p).selector.widget)})
               + Cardinality({pk \in {<<p, k>> : p \in Emitting(last.node), k \in 1..3} :
                                /\ pk[2] \in DOMAIN NodeAt(last.node, pk[1]).properties
                                /\ pk[2] \notin Defined(
                                      NodeAt(last.node, pk[1]).selector.widget,
                                      NodeAt(last.node, pk[1]).properties)})

\* C30 witness: button { with div { color: red; bad: 1px; width: 3px;
\* with blob { width: 1px; } } }.  The div level loses color, which the
\* enclosing button defines and div does not, and bad, and keeps width; the
\* blob level gives one UnknownWidget error and no style.
C30_Witness ==
    /\ last.op = "from_style_node"
    /\ last.node.selector.widget = "button"
    /\ Len(last.node.children) = 1
    /\ last.node.children[1].selector.widget = "div"
    /\ Len(last.node.children[1].properties) = 3
    /\ Len(last.node.children[1].children) = 1
    /\ last.node.children[1].children[1].selector.widget = "blob"
    /\ last.node.children[1].children[1].properties # <<>>
    /\ Len(last.styles) = 1
    /\ DOMAIN last.styles[1].properties = {alloc.properties["width"]}
    /\ last.styles[1].properties[alloc.properties["width"]] = Px("3")
    /\ Len(last.errors) = 3

====
